---------------------------- MODULE Spec2Model ----------------------------
(***************************************************************************)
(* A model of the Go structural scanner of the goto-implementations        *)
(* extension (src/src/extension.ts): the CodeLens provider that finds      *)
(* interface blocks, the method signatures inside them and the receiver    *)
(* methods of a document, and turns them into "goto impl" / "goto iface"   *)
(* hints.                                                                  *)
(*                                                                         *)
(* A document is a sequence of lines and a line is a sequence of           *)
(* one-character strings, so that the regular expressions, trim(),         *)
(* indexOf() and the brace / paren counting of the source are computed on  *)
(* the characters, as the code computes them.  Line numbers are 0-based as *)
(* in the source; sequences are 1-based, so line i of a document d is      *)
(* d[i + 1].                                                               *)
(***************************************************************************)
EXTENDS Integers, Sequences, FiniteSets, TLC

(***************************************************************************)
(* Bounds of the model.                                                    *)
(***************************************************************************)
\* longest document drawn from the interface-side vocabulary
MaxLines == 4
\* longest document drawn from the receiver-side vocabulary
MaxRecvLines == 3
\* the number of locations the oracle returns at most
MaxLocations == 2

(***************************************************************************)
(* Characters.                                                             *)
(***************************************************************************)
\* \w of a JavaScript regular expression: [A-Za-z0-9_]
WordChars ==
    {"a", "b", "c", "d", "e", "f", "g", "h", "i", "j", "k", "l", "m",
     "n", "o", "p", "q", "r", "s", "t", "u", "v", "w", "x", "y", "z",
     "A", "B", "C", "D", "E", "F", "G", "H", "I", "J", "K", "L", "M",
     "N", "O", "P", "Q", "R", "S", "T", "U", "V", "W", "X", "Y", "Z",
     "0", "1", "2", "3", "4", "5", "6", "7", "8", "9", "_"}

\* \s of a JavaScript regular expression, and what trim() strips
SpaceChars == {" ", "\t", "\n"}

(***************************************************************************)
(* String primitives of the source: trim, startsWith, includes, indexOf,   *)
(* and (text.match(/c/g) || []).length.                                    *)
(***************************************************************************)
RECURSIVE TrimStart(_)
TrimStart(s) ==
    IF s = <<>> THEN s
    ELSE IF Head(s) \in SpaceChars THEN TrimStart(Tail(s)) ELSE s

RECURSIVE TrimEnd(_)
TrimEnd(s) ==
    IF s = <<>> THEN s
    ELSE IF s[Len(s)] \in SpaceChars THEN TrimEnd(SubSeq(s, 1, Len(s) - 1))
    ELSE s

\* String.prototype.trim
Trim(s) == TrimEnd(TrimStart(s))

\* does sub occur in s at 1-based position p
OccursAt(s, sub, p) ==
    /\ p >= 1
    /\ p + Len(sub) - 1 <= Len(s)
    /\ \A k \in 1..Len(sub) : s[p + k - 1] = sub[k]

\* String.prototype.startsWith
StartsWith(s, sub) == OccursAt(s, sub, 1)

\* String.prototype.includes
Includes(s, sub) == \E p \in 1..(Len(s) + 1) : OccursAt(s, sub, p)

\* the bug of lastIndexOf: the last occurrence
IndexOf_Last(s, sub) ==
    IF \E p \in 1..(Len(s) + 1) : OccursAt(s, sub, p)
    THEN (CHOOSE p \in 1..(Len(s) + 1) :
              /\ OccursAt(s, sub, p)
              /\ \A q \in (p + 1)..(Len(s) + 1) : ~OccursAt(s, sub, q)) - 1
    ELSE -1

\* String.prototype.indexOf: 0-based index of the first occurrence, or -1
IndexOf(s, sub) ==
    IF Includes(s, sub)
    THEN (CHOOSE p \in 1..(Len(s) + 1) :
              /\ OccursAt(s, sub, p)
              /\ \A q \in 1..(p - 1) : ~OccursAt(s, sub, q)) - 1
    ELSE -1

\* (text.match(/c/g) || []).length: the number of occurrences of character c
CountChar(s, c) == Cardinality({k \in 1..Len(s) : s[k] = c})

(***************************************************************************)
(* Regular expressions.  A pattern is a tree; MatchAt returns, in the      *)
(* order a backtracking matcher tries them, every way the pattern can      *)
(* match at a position, so that greedy quantifiers, optional groups and    *)
(* the captures of the first successful attempt come out as in JavaScript. *)
(***************************************************************************)
Chr(S) == [t |-> "chr", c |-> S]
NotChr(S) == [t |-> "nchr", c |-> S]
Cat(xs) == [t |-> "seq", xs |-> xs]
Lit(w) == Cat([k \in 1..Len(w) |-> Chr({w[k]})])
Alt(a, b) == [t |-> "alt", a |-> a, b |-> b]
Star(x) == [t |-> "star", x |-> x]
Plus(x) == Cat(<<x, Star(x)>>)
Opt(x) == [t |-> "opt", x |-> x]
Grp(n, x) == [t |-> "grp", n |-> n, x |-> x]
Bol == [t |-> "bol"]
Eol == [t |-> "eol"]

\* no group has taken part in the match
NoCaps == [g \in 1..3 |-> <<0, 0>>]

RECURSIVE MatchAt(_, _, _)
RECURSIVE MatchSeq(_, _, _, _)
RECURSIVE MatchSeqEach(_, _, _, _, _)
RECURSIVE MatchEach(_, _, _, _)

\* every way pattern r matches s from state st = [pos, caps], best first
MatchAt(r, s, st) ==
    CASE r.t = "chr" ->
           IF st.pos <= Len(s) /\ s[st.pos] \in r.c
           THEN <<[st EXCEPT !.pos = @ + 1]>> ELSE <<>>
      [] r.t = "nchr" ->
           IF st.pos <= Len(s) /\ s[st.pos] \notin r.c
           THEN <<[st EXCEPT !.pos = @ + 1]>> ELSE <<>>
      [] r.t = "bol" -> IF st.pos = 1 THEN <<st>> ELSE <<>>
      [] r.t = "eol" -> IF st.pos = Len(s) + 1 THEN <<st>> ELSE <<>>
      [] r.t = "seq" -> MatchSeq(r.xs, 1, s, st)
      [] r.t = "alt" -> MatchAt(r.a, s, st) \o MatchAt(r.b, s, st)
      [] r.t = "opt" -> MatchAt(r.x, s, st) \o <<st>>
      [] r.t = "star" ->
           LET once == SelectSeq(MatchAt(r.x, s, st),
                                 LAMBDA n : n.pos > st.pos)
           IN  MatchEach(r, s, once, 1) \o <<st>>
      [] r.t = "grp" ->
           LET inner == MatchAt(r.x, s, st)
           IN  [k \in 1..Len(inner) |->
                  [inner[k] EXCEPT !.caps[r.n] = <<st.pos, inner[k].pos>>]]

\* the patterns xs[k..] in sequence
MatchSeq(xs, k, s, st) ==
    IF k > Len(xs) THEN <<st>>
    ELSE MatchSeqEach(xs, k + 1, s, MatchAt(xs[k], s, st), 1)

MatchSeqEach(xs, k, s, sts, j) ==
    IF j > Len(sts) THEN <<>>
    ELSE MatchSeq(xs, k, s, sts[j]) \o MatchSeqEach(xs, k, s, sts, j + 1)

\* pattern r continued from each of the states sts[j..]
MatchEach(r, s, sts, j) ==
    IF j > Len(sts) THEN <<>>
    ELSE MatchAt(r, s, sts[j]) \o MatchEach(r, s, sts, j + 1)

RECURSIVE ExecFrom(_, _, _)
\* the leftmost match of r in s starting at or after position p
ExecFrom(r, s, p) ==
    IF p > Len(s) + 1 THEN [ok |-> FALSE, index |-> 0, caps |-> NoCaps]
    ELSE LET ms == MatchAt(r, s, [pos |-> p, caps |-> NoCaps])
         IN  IF ms # <<>>
             THEN [ok |-> TRUE, index |-> p - 1, caps |-> ms[1].caps]
             ELSE ExecFrom(r, s, p + 1)

\* String.prototype.match(r) / RegExp.prototype.exec for a pattern without
\* the g flag
Exec(r, s) == ExecFrom(r, s, 1)

\* RegExp.prototype.test
Test(r, s) == Exec(r, s).ok

\* match[n]: the text of group n, the empty text when the group did not
\* take part
GroupText(m, s, n) ==
    IF m.caps[n] = <<0, 0>> THEN <<>>
    ELSE SubSeq(s, m.caps[n][1], m.caps[n][2] - 1)

(***************************************************************************)
(* The patterns of the source.                                             *)
(***************************************************************************)
W == Chr(WordChars)
S == Chr(SpaceChars)

\* the bug of requiring whitespace before the brace:
\* /^type\s+(\w+)\s+interface\s+{/
interfaceStartRegex_RequiresSpace ==
    Cat(<<Bol, Lit(<<"t", "y", "p", "e">>), Plus(S), Grp(1, Plus(W)), Plus(S),
          Lit(<<"i", "n", "t", "e", "r", "f", "a", "c", "e">>), Plus(S),
          Chr({"{"})>>)

\* /^type\s+(\w+)\s+interface\s*{/
interfaceStartRegex ==
    Cat(<<Bol, Lit(<<"t", "y", "p", "e">>), Plus(S), Grp(1, Plus(W)), Plus(S),
          Lit(<<"i", "n", "t", "e", "r", "f", "a", "c", "e">>), Star(S),
          Chr({"{"})>>)

\* /^\s*(\w+)\s*\(/
methodStartRegex ==
    Cat(<<Bol, Star(S), Grp(1, Plus(W)), Star(S), Chr({"("})>>)

\* /^\s*(\w+)\s*\([^)]*\)\s*(\([^)]*\)?|[^\n]*)?$/
singleLineMethodRegex ==
    Cat(<<Bol, Star(S), Grp(1, Plus(W)), Star(S), Chr({"("}),
          Star(NotChr({")"})), Chr({")"}), Star(S),
          Opt(Grp(2, Alt(Cat(<<Chr({"("}), Star(NotChr({")"})),
                               Opt(Chr({")"}))>>),
                         Star(NotChr({"\n"}))))),
          Eol>>)

\* [ /\)\s*\([^)]*\)/, /\)\s*\w+/ ]
returnTypePatterns ==
    << Cat(<<Chr({")"}), Star(S), Chr({"("}), Star(NotChr({")"})),
             Chr({")"})>>),
       Cat(<<Chr({")"}), Star(S), Plus(W)>>) >>

\* /^\s*\([^)]*\)/
nextParenTypeRegex ==
    Cat(<<Bol, Star(S), Chr({"("}), Star(NotChr({")"})), Chr({")"})>>)

\* /^\s*\w+/
nextWordRegex == Cat(<<Bol, Star(S), Plus(W)>>)

\* line 412, in findInterfacesInDocument: /^type\s+(\w+)\s+interface\s*{/
interfaceMatchRegex ==
    Cat(<<Bol, Lit(<<"t", "y", "p", "e">>), Plus(S), Grp(1, Plus(W)), Plus(S),
          Lit(<<"i", "n", "t", "e", "r", "f", "a", "c", "e">>), Star(S),
          Chr({"{"})>>)

\* the bug of an optional receiver: /^func\s*(\(\s*\*?(\w+)\s*\))?\s*(\w+)\s*\(/
structMethodRegex_AnyFunc ==
    Cat(<<Bol, Lit(<<"f", "u", "n", "c">>), Star(Chr({" ", "\t"})),
          Opt(Cat(<<Chr({"("}), Star(Chr({" ", "\t"})), Opt(Chr({"*"})),
                    Grp(2, Plus(Chr(WordChars))), Star(Chr({" ", "\t"})),
                    Chr({")"})>>)),
          Star(Chr({" ", "\t"})), Grp(3, Plus(Chr(WordChars))),
          Star(Chr({" ", "\t"})), Chr({"("})>>)

\* /^func\s*\(\s*(\w+)?\s*\*?(\w+)\s*\)\s*(\w+)\s*\(/
structMethodRegex ==
    Cat(<<Bol, Lit(<<"f", "u", "n", "c">>), Star(S), Chr({"("}), Star(S),
          Opt(Grp(1, Plus(W))), Star(S), Opt(Chr({"*"})), Grp(2, Plus(W)),
          Star(S), Chr({")"}), Star(S), Grp(3, Plus(W)), Star(S),
          Chr({"("})>>)


(***************************************************************************)
(* The lines documents are made of.  Each line is written as Go source     *)
(* text; the declaration lines are built from their parts, so that what a  *)
(* line declares is known independently of what the scanner extracts.      *)
(***************************************************************************)
\* `type <name> interface {`
InterfaceDecl(name) ==
    <<"t", "y", "p", "e", " ">> \o name
        \o <<" ", "i", "n", "t", "e", "r", "f", "a", "c", "e", " ", "{">>

InterfaceNames == {<<"A">>, <<"B">>}

\* `func (<recv> <star><type>) <name>() {}`; recv and star may be empty
ReceiverDecl(f) ==
    <<"f", "u", "n", "c", " ", "(">> \o f.recv
        \o (IF f.recv = <<>> THEN <<>> ELSE <<" ">>) \o f.star \o f.type
        \o <<")", " ">> \o f.name \o <<"(", ")", " ", "{", "}">>

ReceiverForms ==
    [recv : {<<>>, <<"r">>}, star : {<<>>, <<"*">>},
     type : {<<"T">>, <<"H", "d">>}, name : {<<"M">>}]

\* `}`
CloseBrace == <<"}">>
\* `  Read(p T) (`: a signature whose return tuple continues on the next line
ReadOpen == <<" ", " ", "R", "e", "a", "d", "(", "p", " ", "T", ")", " ", "(">>
\* `    n int)`: the end of a return tuple
TupleEnd == <<" ", " ", " ", " ", "n", " ", "i", "n", "t", ")">>
\* `    func(int))`: the end of a return tuple holding an unnamed func type
FuncTupleEnd ==
    <<" ", " ", " ", " ", "f", "u", "n", "c", "(", "i", "n", "t", ")", ")">>
\* `  M() error`: a signature on one line
OneLineMethod == <<" ", " ", "M", "(", ")", " ", "e", "r", "r", "o", "r">>
\* `  // N() error`: a comment that looks like a signature
CommentedMethod ==
    <<" ", " ", "/", "/", " ", "N", "(", ")", " ", "e", "r", "r", "o", "r">>
\* `func M() {}`: a function without receiver
PlainFunc == <<"f", "u", "n", "c", " ", "M", "(", ")", " ", "{", "}">>
\* `// func (r T) M() {}`: a comment that looks like a receiver method
CommentedReceiver ==
    <<"/", "/", " ", "f", "u", "n", "c", " ", "(", "r", " ", "T", ")", " ",
      "M", "(", ")", " ", "{", "}">>
\* `func (r T) N(a int,`: a receiver method whose parameters continue
ReceiverOpen ==
    <<"f", "u", "n", "c", " ", "(", "r", " ", "T", ")", " ", "N", "(", "a",
      " ", "i", "n", "t", ",">>
\* `  b int) {`: the end of a parameter list, opening the body
ParamsEndBody == <<" ", " ", "b", " ", "i", "n", "t", ")", " ", "{">>
\* `  b int)`: the end of a parameter list
ParamsEnd == <<" ", " ", "b", " ", "i", "n", "t", ")">>
\* `  return nil }`: the end of a body
ReturnClose ==
    <<" ", " ", "r", "e", "t", "u", "r", "n", " ", "n", "i", "l", " ", "}">>

\* the lines of documents that declare interfaces
InterfaceLines ==
    {InterfaceDecl(n) : n \in InterfaceNames}
        \cup {CloseBrace, ReadOpen, TupleEnd, FuncTupleEnd, OneLineMethod,
              CommentedMethod}

\* `func (r T) T() {}`: a method named like its receiver type
SameNameForm ==
    [recv |-> <<"r">>, star |-> <<>>, type |-> <<"T">>, name |-> <<"T">>]

\* the lines of documents that declare receiver methods
ReceiverLines ==
    {ReceiverDecl(f) : f \in ReceiverForms \cup {SameNameForm}}
        \cup {PlainFunc, CommentedReceiver, ReceiverOpen, ParamsEndBody,
              ParamsEnd, CloseBrace}

\* `func (r *T) M() error {`: a receiver method opening its body
BodyMethod ==
    <<"f", "u", "n", "c", " ", "(", "r", " ", "*", "T", ")", " ", "M", "(",
      ")", " ", "e", "r", "r", "o", "r", " ", "{">>

\* two interfaces, the second with a comment, the multi-line Read signature
\* and a one-line signature, followed by a receiver method with a body
ExampleFile ==
    << InterfaceDecl(<<"A">>), OneLineMethod, CloseBrace,
       InterfaceDecl(<<"B">>), CommentedMethod, ReadOpen, TupleEnd,
       OneLineMethod, CloseBrace,
       BodyMethod, ReturnClose >>

\* the text of the second open document
OtherFile ==
    << InterfaceDecl(<<"B">>), OneLineMethod, CloseBrace,
       ReceiverDecl([recv |-> <<"r">>, star |-> <<"*">>, type |-> <<"T">>,
                     name |-> <<"M">>]) >>

\* an interface with one signature, a receiver method with a body, and a
\* line like the signature outside any interface
CommandFile ==
    << InterfaceDecl(<<"A">>), OneLineMethod, CloseBrace,
       BodyMethod, ReturnClose, OneLineMethod >>

\* `type E interface{}`: an interface opened and closed on one line
EmptyInterface ==
    <<"t", "y", "p", "e", " ", "E", " ", "i", "n", "t", "e", "r", "f", "a",
      "c", "e", "{", "}">>
\* `type E interface{} }`: the same, followed by the closing brace of the
\* enclosing block
InterfaceThenClose ==
    <<"t", "y", "p", "e", " ", "E", " ", "i", "n", "t", "e", "r", "f", "a",
      "c", "e", "{", "}", " ", "}">>
\* `  // }`: a comment holding a closing brace
CommentedBrace == <<" ", " ", "/", "/", " ", "}">>
\* `  G() struct {`: a signature whose result type opens a brace
StructOpen ==
    <<" ", " ", "G", "(", ")", " ", "s", "t", "r", "u", "c", "t", " ", "{">>
\* `}}`: two closing braces
DoubleClose == <<"}", "}">>

\* the lines of documents whose braces nest, close twice or stand in
\* comments and on interface declaration lines
BraceLines ==
    {InterfaceDecl(<<"A">>), EmptyInterface, InterfaceThenClose,
     CommentedBrace, StructOpen, OneLineMethod, CloseBrace, DoubleClose}

\* two interfaces, the first with a signature on two lines and two on one
\* line, followed by two receiver methods
OrderedFile ==
    << InterfaceDecl(<<"A">>), ReadOpen, TupleEnd, OneLineMethod,
       OneLineMethod, CloseBrace,
       InterfaceDecl(<<"B">>), CloseBrace,
       ReceiverDecl([recv |-> <<"r">>, star |-> <<"*">>, type |-> <<"T">>,
                     name |-> <<"M">>]),
       ReceiverDecl([recv |-> <<"r">>, star |-> <<>>, type |-> <<"T">>,
                     name |-> <<"M">>]) >>

\* a multi-line signature whose return tuple ends on a line without return
\* type, followed by three comment lines
FailOpenFile ==
    << InterfaceDecl(<<"A">>), ReadOpen, TupleEnd, CommentedMethod,
       CommentedMethod, CommentedMethod, CloseBrace >>

\* `  M(p M) M`: a signature whose name occurs again as a type
RepeatedName == <<" ", " ", "M", "(", "p", " ", "M", ")", " ", "M">>

\* an interface whose signature repeats its name on the line
AnchorFile == << InterfaceDecl(<<"A">>), RepeatedName, CloseBrace >>

\* a receiver method with a body, then an interface and, on the fifth and
\* sixth line below the `func` line, two more lines like its signature
PickerFile ==
    << BodyMethod, ReturnClose, InterfaceDecl(<<"A">>), OneLineMethod,
       CloseBrace, OneLineMethod, OneLineMethod >>

\* an interface, two methods with anonymous receivers, `func (Hd) M() {}`
\* and `func (*Hd) M() {}`, and a function without receiver followed by a
\* line of a body
AnonymousFile ==
    << InterfaceDecl(<<"A">>), OneLineMethod, CloseBrace,
       ReceiverDecl([recv |-> <<>>, star |-> <<>>, type |-> <<"H", "d">>,
                     name |-> <<"M">>]),
       ReceiverDecl([recv |-> <<>>, star |-> <<"*">>, type |-> <<"H", "d">>,
                     name |-> <<"M">>]),
       PlainFunc, ReturnClose >>

\* every text of at most n lines over the line set L
TextsOver(L, n) == UNION {[1..k -> L] : k \in 0..n}

\* the texts the first document may hold
Texts ==
    TextsOver(InterfaceLines, MaxLines)
        \cup TextsOver(ReceiverLines, MaxRecvLines)
        \cup {ExampleFile, OrderedFile, FailOpenFile, AnchorFile}

\* the texts the first document may hold when its braces are scanned
BraceTexts == TextsOver(BraceLines, MaxLines)

\* the lines of all texts, and every text a pattern is applied to
Lines ==
    InterfaceLines \cup ReceiverLines \cup BraceLines
        \cup {ExampleFile[k] : k \in 1..Len(ExampleFile)}
        \cup {OtherFile[k] : k \in 1..Len(OtherFile)}
        \cup {RepeatedName}


(***************************************************************************)
(* The results of trim() and of the patterns on the lines above, computed  *)
(* once.                                                                   *)
(***************************************************************************)
Patterns ==
    [interfaceStart |-> interfaceStartRegex,
     methodStart |-> methodStartRegex,
     singleLineMethod |-> singleLineMethodRegex,
     returnType1 |-> returnTypePatterns[1],
     returnType2 |-> returnTypePatterns[2],
     nextParenType |-> nextParenTypeRegex,
     nextWord |-> nextWordRegex,
     structMethod |-> structMethodRegex,
     interfaceMatch |-> interfaceMatchRegex]

trimmedOf == [l \in Lines |-> Trim(l)] @@ <<>>

matchOf ==
    [n \in DOMAIN Patterns |->
        [s \in Lines \cup {Trim(l) : l \in Lines} |->
            LET m == Exec(Patterns[n], s)
            IN  [ok |-> m.ok,
                 groups |-> [g \in 1..3 |-> GroupText(m, s, g)]]] @@ <<>>]

\* text.trim() of a line
Trimmed(lineText) == trimmedOf[lineText]

\* text.match(pattern): [ok, groups]
Match(n, text) == matchOf[n][text]

(***************************************************************************)
(* vscode.TextDocument: [uri, lines].                                      *)
(***************************************************************************)
LineCount(document) == Len(document.lines)

\* lineAt(i) throws unless 0 <= i < lineCount
HasLine(document, i) == i >= 0 /\ i < LineCount(document)

\* document.lineAt(i).text
LineAt(document, i) == document.lines[i + 1]

Min(a, b) == IF a <= b THEN a ELSE b

(***************************************************************************)
(* JavaScript evaluates an expression once and then uses its value: a      *)
(* value v computed by x and used in e is written The({e : v \in {x}}).    *)
(* A loop of the source is a recursion that hands the value of the loop's  *)
(* variables after one iteration to the next one.                          *)
(***************************************************************************)
The(values) == CHOOSE y \in values : TRUE

\* the bug of putting a new element in front of the array
Push_Front(array, element) == <<element>> \o array

\* Array.prototype.push, as at lines 94, 144, 164, 175, 190 and 312: the
\* element is added at the end of the array
Push(array, element) == Append(array, element)

(***************************************************************************)
(* findInterfaces, extension.ts lines 64-102.  The loop's variables are    *)
(* st = [threw, interfaces, currentInterface]; the open interface          *)
(* (currentInterface, possibly null) is a sequence of length 0 or 1.       *)
(***************************************************************************)
\* the bug of leaving the pushed block open
AfterInterfaceEnd_Keep(currentInterface) == currentInterface

\* line 96: currentInterface = null once the block is pushed
AfterInterfaceEnd(currentInterface) == <<>>

\* the bug of closing a block whose count fell below zero
BlockCloses_AtOrBelow(bracketCount) == bracketCount <= 0

\* line 92: the interface ends when bracketCount === 0
BlockCloses(bracketCount) == bracketCount = 0

\* the bug of counting the braces of the declaration line
StartInterface_CountsLine(lineText, i, name) ==
    [name |-> name, startLine |-> i, endLine |-> -1,
     bracketCount |-> CountChar(lineText, "{") - CountChar(lineText, "}")]

\* lines 74-79: the interface started at line i, with bracketCount 1
\* whatever the line holds
StartInterface(lineText, i, name) ==
    [name |-> name, startLine |-> i, endLine |-> -1, bracketCount |-> 1]

\* lines 86-98: the braces of line i counted into the open interface
CountBrackets(document, st, i) ==
    LET lineText == LineAt(document, i)
        count == st.currentInterface[1].bracketCount
                    + CountChar(lineText, "{") - CountChar(lineText, "}")
    IN  IF BlockCloses(count)
        THEN [st EXCEPT
                !.interfaces =
                    Push(@, [st.currentInterface[1] EXCEPT
                                !.bracketCount = count, !.endLine = i]),
                !.currentInterface =
                    AfterInterfaceEnd(<<[st.currentInterface[1] EXCEPT
                                            !.bracketCount = count,
                                            !.endLine = i]>>)]
        ELSE [st EXCEPT !.currentInterface[1].bracketCount = count]

\* lines 69-98: the body of the loop at line i
InterfacesStep(document, st, i) ==
    IF ~HasLine(document, i) THEN [st EXCEPT !.threw = TRUE]
    ELSE LET interfaceMatch ==
                 Match("interfaceStart", Trimmed(LineAt(document, i)))
         IN  IF interfaceMatch.ok
             THEN [st EXCEPT !.currentInterface =
                      << StartInterface(LineAt(document, i), i,
                                        interfaceMatch.groups[1]) >>]
             ELSE IF st.currentInterface # <<>>
             THEN CountBrackets(document, st, i)
             ELSE st

RECURSIVE FindInterfacesLoop(_, _, _)
FindInterfacesLoop(document, i, st) ==
    IF st.threw \/ ~(i < LineCount(document)) THEN st
    ELSE The({FindInterfacesLoop(document, i + 1, next) :
                 next \in {InterfacesStep(document, st, i)}})

\* [threw, interfaces]: a lineAt that threw, or the interfaces returned
FindInterfaces(document) ==
    The({[threw |-> st.threw,
          interfaces |-> IF st.threw THEN <<>> ELSE st.interfaces] :
            st \in {FindInterfacesLoop(document, 0,
                       [threw |-> FALSE, interfaces |-> <<>>,
                        currentInterface |-> <<>>])}})

(***************************************************************************)
(* findMethodsInInterface and its helpers, lines 124-249.  The loop's      *)
(* variables are st = [threw, methods, currentMethod].                     *)
(***************************************************************************)
\* updateMethodState, lines 199-203
UpdateMethodState(method, lineText) ==
    [method EXCEPT !.parenCount =
        @ + CountChar(lineText, "(") - CountChar(lineText, ")")]

\* the bug of storing the end line in place of the length of the span
CompleteMethod_AbsoluteEnd(method, endLine) ==
    [method EXCEPT !.bracketCount = endLine]

\* completeMethod, lines 246-249
CompleteMethod(method, endLine) ==
    [method EXCEPT !.bracketCount = endLine - method.line]

RECURSIVE LookAhead(_, _, _)
\* the loop of isMethodComplete, lines 223-240: "true", "false" or "throw"
LookAhead(document, j, last) ==
    IF j > last THEN "false"
    ELSE IF ~HasLine(document, j) THEN "throw"
    ELSE LET nextLine == Trimmed(LineAt(document, j))
         IN  IF StartsWith(nextLine, <<"/", "/">>)
             THEN LookAhead(document, j + 1, last)
             ELSE IF \/ Match("nextParenType", nextLine).ok
                     \/ Match("nextWord", nextLine).ok
                     \/ Includes(nextLine, <<";">>)
                     \/ Includes(nextLine, <<"}">>)
             THEN "true"
             ELSE LookAhead(document, j + 1, last)

\* isMethodComplete, lines 208-241: "true", "false" or "throw"
IsMethodComplete(document, currentLine, interfaceInfo) ==
    IF ~HasLine(document, currentLine) THEN "throw"
    ELSE LET lineText == LineAt(document, currentLine)
         IN  IF /\ Includes(lineText, <<")">>)
                /\ \/ Match("returnType1", lineText).ok
                   \/ Match("returnType2", lineText).ok
             THEN "true"
             ELSE LookAhead(document, currentLine + 1,
                            Min(currentLine + 3, interfaceInfo.endLine))

\* lines 134-136: comment lines are skipped
IsCommentLine(trimmedText) == StartsWith(trimmedText, <<"/", "/">>)

\* the bug of leaving the pushed method open
AfterMethodComplete_Keep(currentMethod) == currentMethod

\* line 165: currentMethod = null once a completed method is pushed
AfterMethodComplete(currentMethod) == <<>>

\* the bug of walking to the end of the document
MethodsLoopContinues_ToEndOfDocument(document, interfaceInfo, i) ==
    i < Len(document.lines)

\* line 128: the loop runs from startLine while i <= endLine
MethodsLoopContinues(document, interfaceInfo, i) ==
    i <= interfaceInfo.endLine

\* the bug of recording the line before the one that matched
StartMethod_PreviousLine(i, methodName) ==
    [line |-> i - 1, methodName |-> methodName, bracketCount |-> 0,
     parenCount |-> 1]

\* lines 148-153: the method started at line i
StartMethod(i, methodName) ==
    [line |-> i, methodName |-> methodName, bracketCount |-> 0,
     parenCount |-> 1]

\* lines 140-155: line i starts a method; the previous one is completed
MethodStarts(st, i, methodName) ==
    [st EXCEPT
        !.methods = IF st.currentMethod # <<>>
                    THEN Push(@, CompleteMethod(st.currentMethod[1], i - 1))
                    ELSE @,
        !.currentMethod = <<StartMethod(i, methodName)>>]

\* lines 161-166: the current method, already updated, whose parentheses
\* balance at line i; complete is the answer of isMethodComplete
MethodBalanced(st, i, complete) ==
    IF complete = "throw" THEN [st EXCEPT !.threw = TRUE]
    ELSE IF complete = "true"
    THEN [st EXCEPT
            !.methods = Push(@, CompleteMethod(st.currentMethod[1], i)),
            !.currentMethod = AfterMethodComplete(st.currentMethod)]
    ELSE st

\* lines 158-167: line i processed for the current method
ProcessCurrentMethod(document, interfaceInfo, st, i) ==
    IF st.currentMethod = <<>> THEN st
    ELSE The({IF updated.currentMethod[1].parenCount = 0
              THEN MethodBalanced(updated, i,
                       IsMethodComplete(document, i, interfaceInfo))
              ELSE updated :
                 updated \in {[st EXCEPT !.currentMethod[1] =
                                  UpdateMethodState(@, LineAt(document, i))]}})

\* lines 169-184: the single-line path
SingleLineMethod(document, st, i) ==
    LET trimmedText == Trimmed(LineAt(document, i))
        methodMatch == Match("methodStart", trimmedText)
    IN  IF /\ ~st.threw
           /\ Match("singleLineMethod", trimmedText).ok
           /\ methodMatch.ok
           /\ ~\E k \in 1..Len(st.methods) :
                 /\ st.methods[k].methodName = methodMatch.groups[1]
                 /\ st.methods[k].line = i
        THEN [st EXCEPT !.methods =
                 Push(@, [line |-> i,
                            methodName |-> methodMatch.groups[1],
                            bracketCount |-> 0, parenCount |-> 0])]
        ELSE st

\* the bug of a method-start branch without its `continue`
MethodsStep_FallsThrough(document, interfaceInfo, st, i) ==
    IF ~HasLine(document, i) THEN [st EXCEPT !.threw = TRUE]
    ELSE LET trimmedText == Trimmed(LineAt(document, i))
             methodStartMatch == Match("methodStart", trimmedText)
         IN  IF IsCommentLine(trimmedText) THEN st
             ELSE The({SingleLineMethod(document, processed, i) :
                          processed \in {ProcessCurrentMethod(document,
                              interfaceInfo,
                              IF methodStartMatch.ok
                              THEN MethodStarts(st, i,
                                                methodStartMatch.groups[1])
                              ELSE st, i)}})

\* lines 129-184: the body of the loop at line i
MethodsStep(document, interfaceInfo, st, i) ==
    IF ~HasLine(document, i) THEN [st EXCEPT !.threw = TRUE]
    ELSE LET trimmedText == Trimmed(LineAt(document, i))
             methodStartMatch == Match("methodStart", trimmedText)
         IN  IF IsCommentLine(trimmedText) THEN st
             ELSE IF methodStartMatch.ok
             THEN MethodStarts(st, i, methodStartMatch.groups[1])
             ELSE The({SingleLineMethod(document, processed, i) :
                          processed \in {ProcessCurrentMethod(document,
                                            interfaceInfo, st, i)}})

\* the bug of dropping the method still open at the end of the block
RemainingMethod_Dropped(interfaceInfo, st) == st

\* lines 187-191: the remaining method
RemainingMethod(interfaceInfo, st) ==
    IF st.currentMethod # <<>>
    THEN [st EXCEPT !.methods =
             Push(@, CompleteMethod(st.currentMethod[1],
                                      interfaceInfo.endLine))]
    ELSE st

RECURSIVE FindMethodsLoop(_, _, _, _)
FindMethodsLoop(document, interfaceInfo, i, st) ==
    IF st.threw THEN st
    ELSE IF ~MethodsLoopContinues(document, interfaceInfo, i)
    THEN RemainingMethod(interfaceInfo, st)
    ELSE The({FindMethodsLoop(document, interfaceInfo, i + 1, next) :
                 next \in {MethodsStep(document, interfaceInfo, st, i)}})

\* [threw, methods]: a lineAt that threw, or the methods returned
FindMethodsInInterface(document, interfaceInfo) ==
    The({[threw |-> st.threw,
          methods |-> IF st.threw THEN <<>> ELSE st.methods] :
            st \in {FindMethodsLoop(document, interfaceInfo,
                       interfaceInfo.startLine,
                       [threw |-> FALSE, methods |-> <<>>,
                        currentMethod |-> <<>>])}})

(***************************************************************************)
(* createCodeLens, lines 254-268, and processInterface, lines 107-119.     *)
(* A CodeLens is [uri, line, startCol, endCol, title, command, methodName, *)
(* context]: its range and the arguments of its command.                   *)
(***************************************************************************)
\* the bug of passing the method name where the interface name belongs
CreateCodeLens_MethodAsContext(document, method, interfaceName) ==
    LET startLine == LineAt(document, method.line)
        methodStart == IndexOf(startLine, method.methodName)
    IN  [uri |-> document.uri,
         line |-> method.line,
         startCol |-> methodStart,
         endCol |-> methodStart + Len(method.methodName),
         title |-> "goto impl",
         command |-> "goto-implementations.gotoImplementation",
         methodName |-> method.methodName,
         context |-> method.methodName]

\* the bug of searching the trimmed text for the column
CreateCodeLens_TrimmedColumn(document, method, interfaceName) ==
    LET startLine == Trimmed(LineAt(document, method.line))
        methodStart == IndexOf(startLine, method.methodName)
    IN  [uri |-> document.uri,
         line |-> method.line,
         startCol |-> methodStart,
         endCol |-> methodStart + Len(method.methodName),
         title |-> "goto impl",
         command |-> "goto-implementations.gotoImplementation",
         methodName |-> method.methodName,
         context |-> interfaceName]

\* lines 254-268: the lens of a signature
CreateCodeLens(document, method, interfaceName) ==
    LET startLine == LineAt(document, method.line)
        methodStart == IndexOf(startLine, method.methodName)
    IN  [uri |-> document.uri,
         line |-> method.line,
         startCol |-> methodStart,
         endCol |-> methodStart + Len(method.methodName),
         title |-> "goto impl",
         command |-> "goto-implementations.gotoImplementation",
         methodName |-> method.methodName,
         context |-> interfaceName]

\* [threw, methods, codeLenses] of one interface
ProcessInterface(document, interfaceInfo) ==
    The({IF found.threw
            \/ \E k \in 1..Len(found.methods) :
                  ~HasLine(document, found.methods[k].line)
         THEN [threw |-> TRUE, methods |-> <<>>, codeLenses |-> <<>>]
         ELSE [threw |-> FALSE,
               methods |-> found.methods,
               codeLenses |->
                  [k \in 1..Len(found.methods) |->
                      CreateCodeLens(document, found.methods[k],
                                     interfaceInfo.name)]] :
            found \in {FindMethodsInInterface(document, interfaceInfo)}})

(***************************************************************************)
(* findStructMethods, lines 273-325.  The loop's variables are             *)
(* st = [threw, methods, i].                                               *)
(***************************************************************************)
\* lines 287-291: the receiver method pattern and its three groups
ReceiverMatch(trimmedText) ==
    LET methodMatch == Match("structMethod", trimmedText)
    IN  [ok |-> methodMatch.ok,
         receiverName |-> methodMatch.groups[1],
         receiverType |-> methodMatch.groups[2],
         methodName |-> methodMatch.groups[3]]

\* lines 300-303: the parentheses and braces of a line counted into
\* c = [parenCount, bracketCount]
CountLine(c, nextLine) ==
    [parenCount |-> c.parenCount + CountChar(nextLine, "(")
                       - CountChar(nextLine, ")"),
     bracketCount |-> c.bracketCount + CountChar(nextLine, "{")
                         - CountChar(nextLine, "}")]

\* the bug of looking one line past the end of the document
MethodEndLoopContinues_PastEnd(document, j) == j <= LineCount(document)

\* line 297: the inner loop runs while j < document.lineCount
MethodEndLoopContinues(document, j) == j < LineCount(document)

RECURSIVE FindMethodEnd(_, _, _, _)
\* lines 294-310: the line at which the declaration started at line i ends;
\* -2 when lineAt throws
FindMethodEnd(document, i, j, c) ==
    IF ~MethodEndLoopContinues(document, j) THEN i
    ELSE IF ~HasLine(document, j) THEN -2
    ELSE The({IF n.parenCount = 0 /\ n.bracketCount <= 0 THEN j
              ELSE FindMethodEnd(document, i, j + 1, n) :
                 n \in {CountLine(c, LineAt(document, j))}})

\* the bug of resuming the outer loop after the declaration's span
NextStructLine_SkipSpan(i, endLine) == endLine + 1

\* line 276: i++, whatever end line was found for the declaration at i
NextStructLine(i, endLine) == i + 1

\* lines 288-321: the declaration matched at line st.i, ending at endLine
StructMethodFound(st, methodMatch, endLine) ==
    IF endLine = -2 THEN [st EXCEPT !.threw = TRUE]
    ELSE [st EXCEPT
            !.methods = Push(@, [line |-> st.i,
                                   methodName |-> methodMatch.methodName,
                                   receiverType |-> methodMatch.receiverType,
                                   startLine |-> st.i,
                                   endLine |-> endLine]),
            !.i = NextStructLine(st.i, endLine)]

\* lines 277-321: the body of the loop at line st.i
StructMethodsStep(document, st) ==
    IF ~HasLine(document, st.i) THEN [st EXCEPT !.threw = TRUE]
    ELSE LET trimmedText == Trimmed(LineAt(document, st.i))
             methodMatch == ReceiverMatch(trimmedText)
         IN  IF IsCommentLine(trimmedText) THEN [st EXCEPT !.i = @ + 1]
             ELSE IF methodMatch.ok
             THEN The({StructMethodFound(st, methodMatch, endLine) :
                          endLine \in {FindMethodEnd(document, st.i, st.i + 1,
                                          [parenCount |-> 1,
                                           bracketCount |-> 0])}})
             ELSE [st EXCEPT !.i = @ + 1]

RECURSIVE FindStructMethodsLoop(_, _)
FindStructMethodsLoop(document, st) ==
    IF st.threw \/ ~(st.i < LineCount(document)) THEN st
    ELSE The({FindStructMethodsLoop(document, next) :
                 next \in {StructMethodsStep(document, st)}})

\* [threw, methods]: a lineAt that threw, or the methods returned
FindStructMethods(document) ==
    The({[threw |-> st.threw,
          methods |-> IF st.threw THEN <<>> ELSE st.methods] :
            st \in {FindStructMethodsLoop(document,
                       [threw |-> FALSE, methods |-> <<>>, i |-> 0])}})

\* the bug of giving the receiver's lens the command of the other kind
CreateInterfaceCodeLens_ImplCommand(document, methodInfo) ==
    LET startLine == LineAt(document, methodInfo.line)
        methodStart == IndexOf(startLine, methodInfo.methodName)
    IN  [uri |-> document.uri,
         line |-> methodInfo.line,
         startCol |-> methodStart,
         endCol |-> methodStart + Len(methodInfo.methodName),
         title |-> "goto impl",
         command |-> "goto-implementations.gotoImplementation",
         methodName |-> methodInfo.methodName,
         context |-> methodInfo.receiverType]

\* createInterfaceCodeLens, lines 330-344
CreateInterfaceCodeLens(document, methodInfo) ==
    LET startLine == LineAt(document, methodInfo.line)
        methodStart == IndexOf(startLine, methodInfo.methodName)
    IN  [uri |-> document.uri,
         line |-> methodInfo.line,
         startCol |-> methodStart,
         endCol |-> methodStart + Len(methodInfo.methodName),
         title |-> "goto iface",
         command |-> "goto-implementations.gotoInterface",
         methodName |-> methodInfo.methodName,
         context |-> methodInfo.receiverType]

(***************************************************************************)
(* provideCodeLenses, lines 35-59.                                         *)
(***************************************************************************)
\* the bug of one array shared by all calls
NewCodeLenses_Reused(previous) == previous

\* line 36: every call starts from a new, empty array, whatever array the
\* previous call returned
NewCodeLenses(previous) == <<>>

RECURSIVE ProcessInterfaces(_, _, _, _)
\* lines 42-45: the loop over the interfaces; acc = [threw, methods,
\* codeLenses], methods holding one list per interface
ProcessInterfaces(document, interfaces, k, acc) ==
    IF k > Len(interfaces) \/ acc.threw THEN acc
    ELSE The({ProcessInterfaces(document, interfaces, k + 1, next) :
                 next \in {[threw |-> one.threw,
                            methods |-> Append(acc.methods, one.methods),
                            codeLenses |-> acc.codeLenses \o one.codeLenses] :
                              one \in {ProcessInterface(document,
                                         interfaces[k])}}})

\* lines 48-56: the struct methods and their lenses added to what the
\* interfaces gave
AddStructMethods(document, found, fromInterfaces, structs) ==
    IF \/ fromInterfaces.threw
       \/ structs.threw
       \/ \E k \in 1..Len(structs.methods) :
             ~HasLine(document, structs.methods[k].line)
    THEN [threw |-> TRUE, interfaces |-> <<>>, methods |-> <<>>,
          structMethods |-> <<>>, codeLenses |-> <<>>]
    ELSE [threw |-> FALSE,
          interfaces |-> found.interfaces,
          methods |-> fromInterfaces.methods,
          structMethods |-> structs.methods,
          codeLenses |->
             fromInterfaces.codeLenses
                \o [k \in 1..Len(structs.methods) |->
                      CreateInterfaceCodeLens(document, structs.methods[k])]]

\* lines 39-45: the interfaces found and processed
WithInterfaces(document, previous, found) ==
    The({AddStructMethods(document, found, fromInterfaces, structs) :
            fromInterfaces \in {ProcessInterfaces(document,
                                   found.interfaces, 1,
                                   [threw |-> found.threw, methods |-> <<>>,
                                    codeLenses |-> NewCodeLenses(previous)])},
            structs \in {FindStructMethods(document)}})

\* the outcome of a call: whether it threw, what the scanners found and the
\* array returned; the token is not read
ProvideCodeLenses(document, token, previous) ==
    The({WithInterfaces(document, previous, found) :
            found \in {FindInterfaces(document)}})

(***************************************************************************)
(* The state: the text of the first open document, the outcome of the      *)
(* last provideCodeLenses call the editor made, what the first call on the *)
(* first document returned, and whether that document was scanned again    *)
(* ("again"), possibly right after a scan of the second document           *)
(* ("interleaved").                                                        *)
(* The provider class has no mutable field (lines 25-33), so its instances *)
(* carry no state of their own.                                            *)
(***************************************************************************)
VARIABLES doc, scan, first, rescanned, cmd

vars == <<doc, scan, first, rescanned, cmd>>

\* the texts of the documents open in the workspace
TextDocuments == <<doc, OtherFile>>

\* the first open document and the second one
Document(uri) ==
    [uri |-> uri,
     lines |-> IF uri = "doc" THEN TextDocuments[1] ELSE TextDocuments[2]]

(***************************************************************************)
(* The command handlers registered by activate, lines 443-638, and their   *)
(* helpers, lines 351-439.  A position is [line, character]; a location is *)
(* [uri, line, startCol, endCol], a range within one line.  What a handler *)
(* did is [notices, pickers, navigated, propagated]: the messages shown,   *)
(* the item lists offered, the locations shown by showTextDocument, and    *)
(* whether an error left the handler.                                      *)
(***************************************************************************)
\* vscode.workspace.openTextDocument
OpenTextDocument(uri) == Document(uri)

\* vscode.workspace.asRelativePath
AsRelativePath(uri) == uri

Unknown == <<"U", "n", "k", "n", "o", "w", "n">>

RECURSIVE FindFuncAbove(_, _, _)
\* lines 362-368: the nearest of the lines i down to last holding `func`;
\* line -1 when there is none
FindFuncAbove(document, i, last) ==
    IF i < last THEN [line |-> -1, character |-> 0]
    ELSE IF IndexOf(LineAt(document, i), <<"f", "u", "n", "c">>) # -1
    THEN [line |-> i,
          character |-> IndexOf(LineAt(document, i), <<"f", "u", "n", "c">>)]
    ELSE FindFuncAbove(document, i - 1, last)

\* findMethodStart, lines 351-372: [threw, position]
FindMethodStart(document, position) ==
    IF ~HasLine(document, position.line)
    THEN [threw |-> TRUE, position |-> position]
    ELSE LET funcIndex ==
                 IndexOf(LineAt(document, position.line),
                         <<"f", "u", "n", "c">>)
             above == FindFuncAbove(document, position.line - 1,
                                    IF position.line - 5 > 0
                                    THEN position.line - 5 ELSE 0)
         IN  IF funcIndex # -1
             THEN [threw |-> FALSE,
                   position |-> [line |-> position.line,
                                 character |-> funcIndex]]
             ELSE IF above.line # -1
             THEN [threw |-> FALSE, position |-> above]
             ELSE [threw |-> FALSE, position |-> position]

\* is position a before position b
Before(a, b) ==
    a.line < b.line \/ (a.line = b.line /\ a.character < b.character)

RECURSIVE JoinLines(_, _, _)
\* the lines i..j of a document, each followed by a line break
JoinLines(document, i, j) ==
    IF i > j THEN <<>>
    ELSE LineAt(document, i) \o <<"\n">> \o JoinLines(document, i + 1, j)

\* document.getText(new vscode.Range(a, b)); a range orders its ends
GetText(document, a, b) ==
    LET from == IF Before(b, a) THEN b ELSE a
        to == IF Before(b, a) THEN a ELSE b
        fromText == LineAt(document, from.line)
        toText == LineAt(document, to.line)
    IN  IF from.line = to.line
        THEN SubSeq(fromText, from.character + 1, to.character)
        ELSE SubSeq(fromText, from.character + 1, Len(fromText))
                \o <<"\n">>
                \o JoinLines(document, from.line + 1, to.line - 1)
                \o SubSeq(toText, 1, to.character)

\* line 496: /^func\s*\(\s*(\w+)?\s*\*?(\w+)\s*\)/
receiverMatchRegex ==
    Cat(<<Bol, Lit(<<"f", "u", "n", "c">>), Star(S), Chr({"("}), Star(S),
          Opt(Grp(1, Plus(W))), Star(S), Opt(Chr({"*"})), Grp(2, Plus(W)),
          Star(S), Chr({")"})>>)

\* what a handler has done so far
Quiet ==
    [notices |-> <<>>, pickers |-> <<>>, navigated |-> <<>>,
     propagated |-> FALSE, interfaceLocations |-> <<>>]

\* vscode.window.showInformationMessage
ShowInformationMessage(done, text, about) ==
    [done EXCEPT !.notices =
        Append(@, [severity |-> "information", text |-> text,
                   about |-> about])]

\* vscode.window.showErrorMessage
ShowErrorMessage(done, text, about) ==
    [done EXCEPT !.notices =
        Append(@, [severity |-> "error", text |-> text, about |-> about])]

\* vscode.window.showTextDocument(location.uri, {selection: location.range})
ShowTextDocument(done, location) ==
    [done EXCEPT !.navigated = Append(@, location)]

\* the bug of showing the first item whatever the user selected
ShowQuickPick_FirstItem(done, items, selected) ==
    [done EXCEPT !.pickers = Append(@, items),
                 !.navigated = Append(@, items[1].location)]

\* vscode.window.showQuickPick(items) answered by the user, and the
\* selected item shown (lines 514-523, 611-620): selected is the number of
\* the item picked, and no item of the list when the picker is dismissed
ShowQuickPick(done, items, selected) ==
    IF selected \notin 1..Len(items)
    THEN [done EXCEPT !.pickers = Append(@, items)]
    ELSE ShowTextDocument([done EXCEPT !.pickers = Append(@, items)],
                          items[selected].location)

\* lines 485-512: the picker item of one implementation; [threw, item]
ImplementationItem(loc, methodName) ==
    LET document == OpenTextDocument(loc.uri)
        methodStart ==
            FindMethodStart(document,
                [line |-> loc.line, character |-> loc.startCol])
        fullMethodText ==
            GetText(document, methodStart.position,
                    [line |-> loc.line, character |-> loc.endCol])
        receiverMatch == Exec(receiverMatchRegex, fullMethodText)
        implementationClass ==
            IF receiverMatch.ok
            THEN GroupText(receiverMatch, fullMethodText, 2)
            ELSE Unknown
    IN  IF methodStart.threw
        THEN [threw |-> TRUE, item |-> <<>>]
        ELSE [threw |-> FALSE,
              item |-> [label |-> AsRelativePath(loc.uri),
                        detail |-> implementationClass \o <<".">>
                                      \o methodName,
                        location |-> loc]]

\* lines 529-532: the catch of gotoImplementation
CatchImplementationError(error) ==
    ShowErrorMessage(Quiet, "Error while finding implementations", error)

\* the bug of jumping to the first implementation before the picker is
\* shown
ShowImplementations_JumpThenPick(implementations, methodName, selected) ==
    IF Len(implementations) > 0
    THEN The({IF \E k \in 1..Len(items) : items[k].threw
              THEN CatchImplementationError("lineAt")
              ELSE IF Len(implementations) = 1
              THEN ShowTextDocument(Quiet, implementations[1])
              ELSE ShowQuickPick(ShowTextDocument(Quiet, implementations[1]),
                       [k \in 1..Len(items) |-> items[k].item],
                       selected) :
                 items \in {[k \in 1..Len(implementations) |->
                               ImplementationItem(implementations[k],
                                                  methodName)]}})
    ELSE ShowInformationMessage(Quiet, "No implementations found",
                                methodName)

\* lines 475-528: what gotoImplementation does with the implementations
\* found (a sequence of locations, or <<>> for undefined)
ShowImplementations(implementations, methodName, selected) ==
    IF Len(implementations) > 0
    THEN IF Len(implementations) = 1
         THEN ShowTextDocument(Quiet, implementations[1])
         ELSE The({IF \E k \in 1..Len(items) : items[k].threw
                   THEN CatchImplementationError("lineAt")
                   ELSE ShowQuickPick(Quiet,
                            [k \in 1..Len(items) |-> items[k].item],
                            selected) :
                      items \in {[k \in 1..Len(implementations) |->
                                    ImplementationItem(implementations[k],
                                                       methodName)]}})
    ELSE ShowInformationMessage(Quiet, "No implementations found",
                                methodName)

\* the handler of goto-implementations.gotoImplementation, lines 458-533.
\* oracle is what vscode.executeImplementationProvider answers:
\* [kind, locations], kind being "locations", "undefined" or "throws"
GotoImplementation(uri, range, methodName, interfaceName, oracle, selected) ==
    IF oracle.kind = "throws"
    THEN CatchImplementationError("executeImplementationProvider")
    ELSE ShowImplementations(oracle.locations, methodName, selected)

\* lines 408-435 of findInterfacesInDocument: the body of the loop at line
\* i; st = [interfaces, currentInterface]
InDocumentStep(document, st, i) ==
    LET lineText == LineAt(document, i)
        interfaceMatch == Match("interfaceMatch", Trimmed(lineText))
        count == st.currentInterface[1].bracketCount
                    + CountChar(lineText, "{") - CountChar(lineText, "}")
    IN  IF interfaceMatch.ok
        THEN [st EXCEPT !.currentInterface =
                 << [name |-> interfaceMatch.groups[1], startLine |-> i,
                     endLine |-> -1, bracketCount |-> 1] >>]
        ELSE IF st.currentInterface # <<>>
        THEN IF count = 0
             THEN [interfaces |->
                      Append(st.interfaces,
                             [st.currentInterface[1] EXCEPT
                                 !.bracketCount = count, !.endLine = i]),
                   currentInterface |-> <<>>]
             ELSE [st EXCEPT !.currentInterface[1].bracketCount = count]
        ELSE st

RECURSIVE InDocumentLoop(_, _, _)
InDocumentLoop(document, i, st) ==
    IF ~(i < LineCount(document)) THEN st
    ELSE The({InDocumentLoop(document, i + 1, next) :
                 next \in {InDocumentStep(document, st, i)}})

\* findInterfacesInDocument, lines 403-439
FindInterfacesInDocument(document) ==
    InDocumentLoop(document, 0,
        [interfaces |-> <<>>, currentInterface |-> <<>>]).interfaces

\* the bug of asking whether the document has a block at all
CheckIfInInterface_AnyBlock(document, position) ==
    FindInterfacesInDocument(document) # <<>>

\* checkIfInInterface, lines 377-385
CheckIfInInterface(document, position) ==
    \E iface \in {FindInterfacesInDocument(document)} :
        \E k \in 1..Len(iface) :
            /\ position.line >= iface[k].startLine
            /\ position.line <= iface[k].endLine

\* getInterfaceName, lines 390-398
GetInterfaceName(document, position) ==
    The({IF \E k \in 1..Len(iface) :
               /\ position.line >= iface[k].startLine
               /\ position.line <= iface[k].endLine
         THEN iface[CHOOSE k \in 1..Len(iface) :
                       /\ position.line >= iface[k].startLine
                       /\ position.line <= iface[k].endLine
                       /\ \A j \in 1..(k - 1) :
                             ~ /\ position.line >= iface[j].startLine
                               /\ position.line <= iface[j].endLine].name
         ELSE Unknown :
            iface \in {FindInterfacesInDocument(document)}})

\* the bug of keeping every location that is not a func line
InInterfaceBlock_Always(document, location) == TRUE

\* lines 575-576: the location lies within an interface block
InInterfaceBlock(document, location) ==
    CheckIfInInterface(document,
        [line |-> location.line, character |-> location.startCol])

\* lines 562-582: does the filter keep the location
IsInterfaceLocation(location, methodName) ==
    LET document == OpenTextDocument(location.uri)
    IN  /\ HasLine(document, location.line)
        /\ ~StartsWith(Trimmed(LineAt(document, location.line)),
                       <<"f", "u", "n", "c">>)
        /\ Includes(Trimmed(LineAt(document, location.line)),
                    methodName \o <<"(">>)
        /\ InInterfaceBlock(document, location)

RECURSIVE FilterInterfaceLocations(_, _, _)
\* lines 559-583: the locations from the k-th on that the filter keeps
FilterInterfaceLocations(implementations, methodName, k) ==
    IF k > Len(implementations) THEN <<>>
    ELSE (IF IsInterfaceLocation(implementations[k], methodName)
          THEN <<implementations[k]>> ELSE <<>>)
            \o FilterInterfaceLocations(implementations, methodName, k + 1)

\* lines 597-609: the picker item of one interface location
InterfaceItem(loc, methodName) ==
    [label |-> AsRelativePath(loc.uri),
     detail |-> GetInterfaceName(OpenTextDocument(loc.uri),
                    [line |-> loc.line, character |-> loc.startCol])
                  \o <<".">> \o methodName,
     location |-> loc]

\* the bug of jumping to the first location however many were kept
ShowInterfaceLocations_AlwaysFirst(interfaceLocations, methodName, selected) ==
    IF Len(interfaceLocations) > 0
    THEN ShowTextDocument(Quiet, interfaceLocations[1])
    ELSE ShowInformationMessage(Quiet, "No interface methods found",
                                methodName)

\* lines 587-625: what gotoInterface does with the locations kept
ShowInterfaceLocations(interfaceLocations, methodName, selected) ==
    IF Len(interfaceLocations) > 0
    THEN IF Len(interfaceLocations) = 1
         THEN ShowTextDocument(Quiet, interfaceLocations[1])
         ELSE ShowQuickPick(Quiet,
                  [k \in 1..Len(interfaceLocations) |->
                      InterfaceItem(interfaceLocations[k], methodName)],
                  selected)
    ELSE ShowInformationMessage(Quiet, "No interface methods found",
                                methodName)

\* the bug of handing the error on to the caller
CatchInterfaceError_Rethrow(error) == [Quiet EXCEPT !.propagated = TRUE]

\* lines 630-633: the catch of gotoInterface
CatchInterfaceError(error) ==
    ShowErrorMessage(Quiet, "Error while finding interface methods", error)

\* the handler of goto-implementations.gotoInterface, lines 539-634
GotoInterface(uri, range, methodName, receiverType, oracle, selected) ==
    IF oracle.kind = "throws"
    THEN CatchInterfaceError("executeImplementationProvider")
    ELSE IF Len(oracle.locations) > 0
    THEN The({[ShowInterfaceLocations(interfaceLocations, methodName,
                                      selected)
                  EXCEPT !.interfaceLocations = interfaceLocations] :
                 interfaceLocations \in
                     {FilterInterfaceLocations(oracle.locations, methodName,
                                               1)}})
    ELSE ShowInformationMessage(Quiet, "No implementations found",
                                methodName)

\* vscode.CancellationToken: whether cancellation is requested when the
\* call runs; a call runs to its end without giving up control, so the
\* token does not change while the scanners loop
CancellationTokens == [isCancellationRequested : BOOLEAN]

NoToken == [isCancellationRequested |-> FALSE]

\* no command has run.  pc, filteredOn, items and labelledOn follow a
\* gotoInterface handler from one await to the next: where it stands, the
\* text each kept location was filtered on, the picker items made so far
\* and the text each was made from
NoCommand ==
    [command |-> "none", uri |-> "", start |-> [line |-> 0, character |-> 0],
     methodName |-> <<>>, context |-> <<>>,
     oracle |-> [kind |-> "undefined", locations |-> <<>>], selected |-> 0,
     interfaceLocations |-> <<>>,
     notices |-> <<>>, pickers |-> <<>>, navigated |-> <<>>,
     propagated |-> FALSE,
     pc |-> "idle", filteredOn |-> <<>>, items |-> <<>>, labelledOn |-> <<>>]

\* nothing scanned, no command run
Idle ==
    /\ scan = [called |-> FALSE, uri |-> "", token |-> NoToken,
               threw |-> FALSE, interfaces |-> <<>>, methods |-> <<>>,
               structMethods |-> <<>>, codeLenses |-> <<>>]
    /\ first = [seen |-> FALSE, threw |-> FALSE, codeLenses |-> <<>>]
    /\ rescanned = "no"
    /\ cmd = NoCommand

Init ==
    /\ doc \in Texts
    /\ Idle

\* the editor asks the provider for the code lenses of a document
Provide(uri) ==
    \E token \in CancellationTokens :
    \E out \in {ProvideCodeLenses(Document(uri), token, scan.codeLenses)} :
        /\ scan' = [called |-> TRUE, uri |-> uri, token |-> token,
                    threw |-> out.threw,
                    interfaces |-> out.interfaces,
                    methods |-> out.methods,
                    structMethods |-> out.structMethods,
                    codeLenses |-> out.codeLenses]
        /\ first' = IF uri = "doc" /\ ~first.seen
                    THEN [seen |-> TRUE, threw |-> out.threw,
                          codeLenses |-> out.codeLenses]
                    ELSE first
        /\ rescanned' = IF uri = "doc" /\ first.seen
                        THEN IF scan.uri = "other" \/ rescanned = "interleaved"
                             THEN "interleaved" ELSE "again"
                        ELSE rescanned
        /\ UNCHANGED <<doc, cmd>>

\* provideCodeLenses on the first document
ProvideForDoc == Provide("doc")

\* provideCodeLenses on the second document
ProvideForOther == Provide("other")

Next == ProvideForDoc \/ ProvideForOther

Spec == Init /\ [][Next]_vars

\* the same program, with a first document from the texts whose braces
\* nest, close twice or stand in comments and on declaration lines
InitBraces ==
    /\ doc \in BraceTexts
    /\ Idle

SpecBraces == InitBraces /\ [][Next]_vars

(***************************************************************************)
(* The user activates a code lens of the last scan: the editor runs the    *)
(* lens's command with its arguments (lines 262-266 and 338-342).  The     *)
(* oracle answers with locations in the open documents, with no result, or *)
(* fails; the user answers a picker.  A handler keeps no state, so a       *)
(* behaviour follows one activation.                                       *)
(***************************************************************************)
\* a range within each line of the open documents: its trimmed text
WorkspaceLocations ==
    UNION {{[uri |-> uri, line |-> line,
             startCol |-> Len(LineAt(Document(uri), line))
                            - Len(TrimStart(LineAt(Document(uri), line))),
             endCol |-> Len(TrimEnd(LineAt(Document(uri), line)))] :
               line \in 0..(LineCount(Document(uri)) - 1)} :
             uri \in {"doc", "other"}}

\* what vscode.executeImplementationProvider may answer
OracleAnswers ==
    {[kind |-> "throws", locations |-> <<>>],
     [kind |-> "undefined", locations |-> <<>>]}
        \cup {[kind |-> "locations", locations |-> l] :
                 l \in UNION {[1..n -> WorkspaceLocations] :
                                n \in 0..MaxLocations}}

\* the number of items the user was offered
Offered(done) == IF done.pickers = <<>> THEN 0 ELSE Len(done.pickers[1])

\* the command of the k-th code lens of the last scan runs
Activate(k, oracle, selected) ==
    LET lens == scan.codeLenses[k]
        start == [line |-> lens.line, character |-> lens.startCol]
        range == [start |-> start,
                  end |-> [line |-> lens.line, character |-> lens.endCol]]
    IN  \E done \in
            {IF lens.command = "goto-implementations.gotoImplementation"
             THEN GotoImplementation(lens.uri, range, lens.methodName,
                                     lens.context, oracle, selected)
             ELSE GotoInterface(lens.uri, range, lens.methodName,
                                lens.context, oracle, selected)} :
            /\ selected <= Offered(done)
            /\ cmd' = [command |-> lens.command, uri |-> lens.uri,
                       start |-> start, methodName |-> lens.methodName,
                       context |-> lens.context, oracle |-> oracle,
                       selected |-> selected,
                       interfaceLocations |-> done.interfaceLocations,
                       notices |-> done.notices, pickers |-> done.pickers,
                       navigated |-> done.navigated,
                       propagated |-> done.propagated,
                       pc |-> "done", filteredOn |-> <<>>, items |-> <<>>,
                       labelledOn |-> <<>>]
            /\ UNCHANGED <<doc, scan, first, rescanned>>

\* the user clicks a "goto impl" lens
ActivateImplementation ==
    /\ cmd.command = "none"
    /\ \E k \in 1..Len(scan.codeLenses) :
          /\ scan.codeLenses[k].command
                = "goto-implementations.gotoImplementation"
          /\ \E oracle \in OracleAnswers, selected \in 0..MaxLocations :
                Activate(k, oracle, selected)

\* the user clicks a "goto iface" lens
ActivateInterface ==
    /\ cmd.command = "none"
    /\ \E k \in 1..Len(scan.codeLenses) :
          /\ scan.codeLenses[k].command = "goto-implementations.gotoInterface"
          /\ \E oracle \in OracleAnswers, selected \in 0..MaxLocations :
                Activate(k, oracle, selected)

\* the texts of the first document when commands are followed
CommandTexts == {CommandFile, <<ReceiverDecl(SameNameForm)>>}

InitCommands ==
    /\ doc \in CommandTexts
    /\ Idle

NextCommands ==
    \/ ProvideForDoc
    \/ ProvideForOther
    \/ ActivateImplementation
    \/ ActivateInterface

SpecCommands == InitCommands /\ [][NextCommands]_vars

\* the texts of the first document when the picker of gotoImplementation
\* is followed
InitPicker ==
    /\ doc \in {PickerFile, AnonymousFile}
    /\ Idle

NextPicker ==
    \/ ProvideForDoc
    \/ ActivateImplementation

SpecPicker == InitPicker /\ [][NextPicker]_vars

(***************************************************************************)
(* The gotoInterface handler followed from one await to the next, lines    *)
(* 539-634, while the first document is edited.  A TextDocument is live:   *)
(* what the handler reads after an await is the text of that moment.  The  *)
(* handler gives up control at executeCommand (line 550), at each          *)
(* openTextDocument of the filter loop (line 563) and of the picker items  *)
(* (line 598), and at showQuickPick (line 611); checkIfInInterface and     *)
(* getInterfaceName hold no await and run to their end when called.        *)
(***************************************************************************)
\* what vscode.executeImplementationProvider may answer to gotoInterface:
\* locations of the signature `M() error` in the open documents
InterfaceOracleAnswers ==
    {[kind |-> "throws", locations |-> <<>>],
     [kind |-> "undefined", locations |-> <<>>]}
        \cup {[kind |-> "locations", locations |-> l] :
                 l \in UNION {[1..n ->
                                 {w \in WorkspaceLocations :
                                     LineAt(Document(w.uri), w.line)
                                        = OneLineMethod}] :
                                n \in 0..MaxLocations}}

\* lines 587-625 once the filter loop has ended: nothing kept, one location
\* kept, or the picker items begun
AfterFilter(c) ==
    IF Len(c.interfaceLocations) = 0
    THEN [c EXCEPT !.pc = "done",
                   !.notices = ShowInformationMessage(Quiet,
                                   "No interface methods found",
                                   c.methodName).notices]
    ELSE IF Len(c.interfaceLocations) = 1
    THEN [c EXCEPT !.pc = "done", !.navigated = <<c.interfaceLocations[1]>>]
    ELSE [c EXCEPT !.pc = "label",
                   !.items = [k \in 1..Len(c.interfaceLocations) |-> <<>>],
                   !.labelledOn =
                       [k \in 1..Len(c.interfaceLocations) |-> <<>>]]

\* lines 539-557, 622-633: the user clicks a "goto iface" lens and the
\* oracle answers
InvokeInterface ==
    /\ cmd.command = "none"
    /\ \E k \in 1..Len(scan.codeLenses) :
          /\ scan.codeLenses[k].command = "goto-implementations.gotoInterface"
          /\ \E oracle \in InterfaceOracleAnswers :
              \E started \in
                  {[NoCommand EXCEPT
                      !.command = scan.codeLenses[k].command,
                      !.uri = scan.codeLenses[k].uri,
                      !.start = [line |-> scan.codeLenses[k].line,
                                 character |-> scan.codeLenses[k].startCol],
                      !.methodName = scan.codeLenses[k].methodName,
                      !.context = scan.codeLenses[k].context,
                      !.oracle = oracle]} :
                cmd' = IF oracle.kind = "throws"
                       THEN [started EXCEPT
                               !.pc = "done",
                               !.notices = CatchInterfaceError(
                                   "executeImplementationProvider").notices]
                       ELSE IF Len(oracle.locations) > 0
                       THEN [started EXCEPT !.pc = "filter"]
                       ELSE [started EXCEPT
                               !.pc = "done",
                               !.notices = ShowInformationMessage(Quiet,
                                               "No implementations found",
                                               started.methodName).notices]
    /\ UNCHANGED <<doc, scan, first, rescanned>>

\* lines 561-582: the next location of the filter loop, on the text its
\* document has now
FilterLocation ==
    /\ cmd.pc = "filter"
    /\ \E k \in {Len(cmd.filteredOn) + 1} :
       \E kept \in {IsInterfaceLocation(cmd.oracle.locations[k],
                                        cmd.methodName)} :
       \E text \in {OpenTextDocument(cmd.oracle.locations[k].uri).lines} :
       \E filtered \in
           {[cmd EXCEPT
               !.filteredOn = Append(@, [kept |-> kept, text |-> text]),
               !.interfaceLocations =
                   IF kept THEN Append(@, cmd.oracle.locations[k]) ELSE @]} :
          cmd' = IF k = Len(cmd.oracle.locations)
                 THEN AfterFilter(filtered) ELSE filtered
    /\ UNCHANGED <<doc, scan, first, rescanned>>

\* lines 597-609: one of the picker items still to be made, on the text its
\* document has now
LabelLocation ==
    /\ cmd.pc = "label"
    /\ \E k \in 1..Len(cmd.items) :
          /\ cmd.items[k] = <<>>
          /\ \E item \in {InterfaceItem(cmd.interfaceLocations[k],
                                         cmd.methodName)} :
             \E text \in
                 {OpenTextDocument(cmd.interfaceLocations[k].uri).lines} :
             \E labelled \in
                 {[cmd EXCEPT !.items[k] = <<item>>,
                              !.labelledOn[k] = <<text>>]} :
                cmd' = IF \A j \in 1..Len(labelled.items) :
                              labelled.items[j] # <<>>
                       THEN [labelled EXCEPT !.pc = "pick"]
                       ELSE labelled
    /\ UNCHANGED <<doc, scan, first, rescanned>>

\* lines 611-620: the picker is answered
PickInterface ==
    /\ cmd.pc = "pick"
    /\ \E selected \in 0..Len(cmd.items) :
       \E done \in {ShowQuickPick(Quiet,
                        [k \in 1..Len(cmd.items) |-> cmd.items[k][1]],
                        selected)} :
          cmd' = [cmd EXCEPT !.pc = "done", !.selected = selected,
                             !.pickers = done.pickers,
                             !.navigated = done.navigated]
    /\ UNCHANGED <<doc, scan, first, rescanned>>

\* the first document with its first line deleted, and with its interface
\* renamed
EditTexts ==
    {CommandFile, Tail(CommandFile),
     [CommandFile EXCEPT ![1] = InterfaceDecl(<<"B">>)]}

\* the user edits the first document
EditDocument ==
    /\ \E text \in EditTexts : text # doc /\ doc' = text
    /\ UNCHANGED <<scan, first, rescanned, cmd>>

InitEdits ==
    /\ doc \in EditTexts
    /\ Idle

NextEdits ==
    \/ ProvideForDoc
    \/ EditDocument
    \/ InvokeInterface
    \/ FilterLocation
    \/ LabelLocation
    \/ PickInterface

SpecEdits == InitEdits /\ [][NextEdits]_vars


(***************************************************************************)
(* What the lines of a text declare, from the way they were written.       *)
(***************************************************************************)
\* the text the last call scanned
ScannedText == Document(scan.uri).lines

InterfaceDeclTexts == {InterfaceDecl(n) : n \in InterfaceNames}

\* the receiver method lines, each with the parts it was written from
ReceiverDeclarations ==
    {[text |-> ReceiverDecl(f), form |-> f] :
        f \in ReceiverForms \cup {SameNameForm}}
        \cup {[text |-> ReceiverOpen,
               form |-> [recv |-> <<"r">>, star |-> <<>>, type |-> <<"T">>,
                         name |-> <<"N">>]],
              [text |-> BodyMethod,
               form |-> [recv |-> <<"r">>, star |-> <<"*">>,
                         type |-> <<"T">>, name |-> <<"M">>]]}

ReceiverDeclTexts == {d.text : d \in ReceiverDeclarations}

\* the lines that are line comments
CommentTexts == {CommentedMethod, CommentedReceiver}

\* the lines that begin a method signature of an interface
SignatureHeadTexts == {ReadOpen, OneLineMethod}

\* the lines that continue a signature begun on an earlier line
ContinuationTexts == {TupleEnd, FuncTupleEnd}

RECURSIVE ParenBalance(_, _, _)
\* opening minus closing parentheses over lines s..e of text t
ParenBalance(t, s, e) ==
    IF e < s THEN 0
    ELSE ParenBalance(t, s, e - 1) + CountChar(t[e + 1], "(")
            - CountChar(t[e + 1], ")")

\* lines s..e of text t are one signature of block b: a head at s whose
\* parentheses stay open until they balance at e > s, over continuation
\* lines
MultiLineSignature(t, b, s, e) ==
    /\ b.startLine < s /\ s < e /\ e <= b.endLine
    /\ t[s + 1] \in SignatureHeadTexts
    /\ \A i \in (s + 1)..e : t[i + 1] \in ContinuationTexts
    /\ \A i \in s..(e - 1) : ParenBalance(t, s, i) > 0
    /\ ParenBalance(t, s, e) = 0

\* the indexes of the signatures of block k reported at line i
SignaturesAt(k, i) ==
    {m \in 1..Len(scan.methods[k]) : scan.methods[k][m].line = i}

\* the "goto impl" lenses of the last call
ImplLenses ==
    {c \in 1..Len(scan.codeLenses) : scan.codeLenses[c].title = "goto impl"}

(***************************************************************************)
(* The claims.                                                             *)
(***************************************************************************)

\* C1: the interface blocks findInterfaces returns are pairwise disjoint:
\* each block ends at or after its start, and a block that comes earlier in
\* the result ends before a later one starts, so none overlaps or nests.
C1_BlocksDisjoint ==
    scan.called =>
        /\ \A a \in 1..Len(scan.interfaces) :
              scan.interfaces[a].startLine <= scan.interfaces[a].endLine
        /\ \A a, b \in 1..Len(scan.interfaces) :
              a < b =>
                 scan.interfaces[a].endLine < scan.interfaces[b].startLine

\* a scan that returned two blocks
C1_Witness == scan.called /\ Len(scan.interfaces) >= 2

\* C2: every signature findMethodsInInterface reports for a returned block
\* lies on a line of that block.
C2_SignatureInBlock ==
    scan.called =>
        \A k \in 1..Len(scan.interfaces) :
            \A m \in 1..Len(scan.methods[k]) :
                /\ scan.interfaces[k].startLine <= scan.methods[k][m].line
                /\ scan.methods[k][m].line <= scan.interfaces[k].endLine

\* a scan of a text with a block that has a signature, and with a signature
\* line after the end of that block
C2_Witness ==
    /\ scan.called
    /\ \E k \in 1..Len(scan.interfaces) :
          /\ Len(scan.methods[k]) >= 1
          /\ \E i \in (scan.interfaces[k].endLine + 1)
                         ..(Len(ScannedText) - 1) :
                ScannedText[i + 1] \in SignatureHeadTexts

C4_AnonymousReceiver ==
    scan.called =>
        \A i \in 0..(Len(ScannedText) - 1) :
            \A d \in ReceiverDeclarations :
                (d.text = ScannedText[i + 1] /\ d.form.recv = <<>>) =>
                    /\ \E k \in 1..Len(scan.structMethods) :
                          /\ scan.structMethods[k].startLine = i
                          /\ scan.structMethods[k].receiverType = d.form.type
                    /\ ReceiverMatch(Trimmed(ScannedText[i + 1])).receiverName
                          = <<>>

\* C5: a signature of a returned block that continues onto following lines
\* is reported exactly once, at its first line, and no signature is reported
\* for its continuation lines.
C5_MultiLineOnce ==
    scan.called =>
        \A k \in 1..Len(scan.interfaces) :
            \A s, e \in 0..(Len(ScannedText) - 1) :
                MultiLineSignature(ScannedText, scan.interfaces[k], s, e) =>
                    /\ Cardinality(SignaturesAt(k, s)) = 1
                    /\ \A i \in (s + 1)..e : SignaturesAt(k, i) = {}

\* C6: the signatures returned for a block never hold the same
\* (line, methodName) pair twice.
C6_NoDuplicateSignature ==
    scan.called =>
        \A k \in 1..Len(scan.interfaces) :
            \A m, n \in 1..Len(scan.methods[k]) :
                (/\ scan.methods[k][m].line = scan.methods[k][n].line
                 /\ scan.methods[k][m].methodName
                       = scan.methods[k][n].methodName) => m = n

\* a block with a signature pushed when its parentheses balanced and
\* another pushed at the end of the block
C6_Witness ==
    /\ scan.called
    /\ \E k \in 1..Len(scan.interfaces) :
          \E m, n \in 1..Len(scan.methods[k]) :
              /\ scan.methods[k][m].parenCount = 0
              /\ scan.methods[k][n].parenCount # 0

\* C7: a comment line inside a returned block never gets a method signature
\* nor a "goto impl" lens.
C7_NoSignatureOnComment ==
    scan.called =>
        \A k \in 1..Len(scan.interfaces) :
            \A i \in scan.interfaces[k].startLine
                        ..scan.interfaces[k].endLine :
                ScannedText[i + 1] \in CommentTexts =>
                    /\ SignaturesAt(k, i) = {}
                    /\ \A c \in ImplLenses : scan.codeLenses[c].line # i

\* a block holding a comment that looks like a signature, directly followed
\* by a signature that was reported
C7_Witness ==
    /\ scan.called
    /\ \E k \in 1..Len(scan.interfaces) :
          \E i \in scan.interfaces[k].startLine
                      ..(scan.interfaces[k].endLine - 1) :
              /\ ScannedText[i + 1] = CommentedMethod
              /\ SignaturesAt(k, i + 1) # {}

\* C8: every "goto impl" lens carries the name of the one returned block
\* that contains its line, which is the name declared on that block's first
\* line.
C8_ContextIsOwnInterface ==
    scan.called =>
        \A c \in ImplLenses :
            LET holders == {k \in 1..Len(scan.interfaces) :
                              /\ scan.interfaces[k].startLine
                                    <= scan.codeLenses[c].line
                              /\ scan.codeLenses[c].line
                                    <= scan.interfaces[k].endLine}
            IN  /\ Cardinality(holders) = 1
                /\ \A k \in holders :
                      /\ scan.codeLenses[c].context = scan.interfaces[k].name
                      /\ ScannedText[scan.interfaces[k].startLine + 1]
                            = InterfaceDecl(scan.codeLenses[c].context)

\* a scan that produced lenses for two interfaces of different names
C8_Witness ==
    /\ scan.called
    /\ \E c, e \in ImplLenses :
          scan.codeLenses[c].context # scan.codeLenses[e].context

\* C9: every call on the first document returns what the first call on it
\* returned, whatever calls were made in between.
C9_SameTextSameLenses ==
    (scan.called /\ scan.uri = "doc" /\ first.seen) =>
        /\ scan.threw = first.threw
        /\ scan.codeLenses = first.codeLenses

\* the first document scanned again right after a scan of the second
\* document, with lenses to return
C9_Witness ==
    /\ scan.called /\ scan.uri = "doc" /\ rescanned = "interleaved"
    /\ scan.codeLenses # <<>>

\* C10: for a text without any interface declaration line and without any
\* receiver method line, the empty text included, provideCodeLenses returns
\* no lens and throws nothing.
C10_NothingFound ==
    (/\ scan.called
     /\ \A i \in 1..Len(ScannedText) :
           ScannedText[i] \notin InterfaceDeclTexts \cup ReceiverDeclTexts) =>
        /\ ~scan.threw
        /\ scan.codeLenses = <<>>

\* a scan of a text that declares nothing but holds a function without
\* receiver
C10_Witness ==
    /\ scan.called
    /\ \A i \in 1..Len(ScannedText) :
          ScannedText[i] \notin InterfaceDeclTexts \cup ReceiverDeclTexts
    /\ \E i \in 1..Len(ScannedText) : ScannedText[i] = PlainFunc

(***************************************************************************)
(* Claims about the command handlers, under SpecCommands.                  *)
(***************************************************************************)
\* C11: after gotoImplementation, with n the number of locations the oracle
\* returned: n = 1 shows that location and no picker; n >= 2 offers one
\* item per location, in the oracle's order, and shows the selected one, or
\* nothing when the picker is dismissed; n = 0 or no result shows one
\* message and no document.
C11_ImplementationOutcome ==
    (/\ cmd.command = "goto-implementations.gotoImplementation"
     /\ cmd.oracle.kind # "throws") =>
        LET locations == cmd.oracle.locations
            n == Len(locations)
        IN  /\ n = 1 =>
                  /\ cmd.navigated = <<locations[1]>>
                  /\ cmd.pickers = <<>>
                  /\ cmd.notices = <<>>
            /\ n >= 2 =>
                  /\ Len(cmd.pickers) = 1
                  /\ Len(cmd.pickers[1]) = n
                  /\ \A k \in 1..n : cmd.pickers[1][k].location = locations[k]
                  /\ cmd.navigated = IF cmd.selected = 0 THEN <<>>
                                     ELSE <<locations[cmd.selected]>>
                  /\ cmd.notices = <<>>
            /\ n = 0 =>
                  /\ Len(cmd.notices) = 1
                  /\ cmd.pickers = <<>>
                  /\ cmd.navigated = <<>>

\* two different implementations offered, the second one selected and shown
C11_Witness ==
    /\ cmd.command = "goto-implementations.gotoImplementation"
    /\ cmd.oracle.kind = "locations"
    /\ Len(cmd.oracle.locations) = 2
    /\ cmd.oracle.locations[1] # cmd.oracle.locations[2]
    /\ cmd.selected = 2
    /\ cmd.navigated = <<cmd.oracle.locations[2]>>

\* C12: after gotoInterface, with m the number of oracle locations the
\* filter kept: m = 1 shows that location and no picker; m >= 2 offers one
\* item per kept location and shows the selected one, or nothing when the
\* picker is dismissed; m = 0 shows one information message and no
\* document, also when the oracle returned locations.
C12_InterfaceOutcome ==
    (/\ cmd.command = "goto-implementations.gotoInterface"
     /\ cmd.oracle.kind # "throws") =>
        LET kept == cmd.interfaceLocations
            m == Len(kept)
        IN  /\ m <= Len(cmd.oracle.locations)
            /\ m = 1 =>
                  /\ cmd.navigated = <<kept[1]>>
                  /\ cmd.pickers = <<>>
                  /\ cmd.notices = <<>>
            /\ m >= 2 =>
                  /\ Len(cmd.pickers) = 1
                  /\ Len(cmd.pickers[1]) = m
                  /\ \A k \in 1..m : cmd.pickers[1][k].location = kept[k]
                  /\ cmd.navigated = IF cmd.selected = 0 THEN <<>>
                                     ELSE <<kept[cmd.selected]>>
                  /\ cmd.notices = <<>>
            /\ m = 0 =>
                  /\ Len(cmd.notices) = 1
                  /\ cmd.notices[1].severity = "information"
                  /\ cmd.pickers = <<>>
                  /\ cmd.navigated = <<>>

\* the oracle returned two locations, the filter kept the second one only,
\* and it was shown without a picker
C12_Witness ==
    /\ cmd.command = "goto-implementations.gotoInterface"
    /\ Len(cmd.oracle.locations) = 2
    /\ cmd.interfaceLocations = <<cmd.oracle.locations[2]>>
    /\ cmd.oracle.locations[1] # cmd.oracle.locations[2]
    /\ cmd.navigated = <<cmd.oracle.locations[2]>>
    /\ cmd.pickers = <<>>

(***************************************************************************)
(* Claims about provideCodeLenses and the scanners, under Spec.            *)
(***************************************************************************)
\* C13: a call whose cancellation token is raised while its scanners loop
\* stops and returns no lens: the caller gets the whole result of a call
\* that was not cancelled, or nothing.
C13_CancelledScanPublishesNothing ==
    (scan.called /\ scan.token.isCancellationRequested) =>
        scan.codeLenses = <<>>

(***************************************************************************)
(* More claims about the command handlers, under SpecCommands.             *)
(***************************************************************************)
\* the oracle returned no location, or failed
LookupEmptyOrFailed ==
    /\ cmd.command # "none"
    /\ cmd.oracle.kind = "locations" => cmd.oracle.locations = <<>>

\* C14 as stated: in both handlers, when the lookup returns no location or
\* fails, one information message is shown, no document is shown and no
\* error leaves the handler.
C14_InformationNotice ==
    LookupEmptyOrFailed =>
        /\ Len(cmd.notices) = 1
        /\ cmd.notices[1].severity = "information"
        /\ cmd.navigated = <<>>
        /\ ~cmd.propagated

\* C14 as amended: in both handlers, when the lookup returns no location an
\* information message is shown, when it fails an error message is shown;
\* either way it is the only message, no picker and no document is shown,
\* and no error leaves the handler.
C14_NoticeWithoutNavigation ==
    LookupEmptyOrFailed =>
        /\ Len(cmd.notices) = 1
        /\ cmd.notices[1].severity =
              IF cmd.oracle.kind = "throws" THEN "error" ELSE "information"
        /\ cmd.pickers = <<>>
        /\ cmd.navigated = <<>>
        /\ ~cmd.propagated

\* gotoInterface ran and the lookup failed
C14_Witness ==
    /\ cmd.command = "goto-implementations.gotoInterface"
    /\ cmd.oracle.kind = "throws"
    /\ Len(cmd.notices) = 1

\* C15: on every document, also one whose braces or parentheses do not
\* balance, the scanners and provideCodeLenses return without throwing.
C15_ScannersReturn == scan.called => ~scan.threw

\* a scanned document that ends with the open parameter list of a receiver
\* method, which the scanner reported
C15_Witness ==
    /\ scan.called /\ scan.uri = "doc" /\ ~scan.threw
    /\ Len(doc) > 1
    /\ doc[Len(doc)] = ReceiverOpen
    /\ \E k \in 1..Len(scan.structMethods) :
          scan.structMethods[k].line = Len(doc) - 1

RECURSIVE BraceDepth(_, _, _)
\* the depth after line e of the block of text t opened at line s: 1 plus
\* opening minus closing braces over lines s+1..e
BraceDepth(t, s, e) ==
    IF e <= s THEN 1
    ELSE BraceDepth(t, s, e - 1) + CountChar(t[e + 1], "{")
            - CountChar(t[e + 1], "}")

\* line s of text t opens an interface that is still open at the end of t,
\* no other interface starting after it
OpenAtEnd(t, s) ==
    /\ t[s + 1] \in InterfaceDeclTexts
    /\ \A e \in (s + 1)..(Len(t) - 1) :
          /\ t[e + 1] \notin InterfaceDeclTexts
          /\ BraceDepth(t, s, e) # 0

\* C16: when an interface is opened and its braces never close before the
\* end of the document, the one-line signatures written in it are still
\* reported, each with its lens.
C16_OpenBlockKeepsSignatures ==
    (scan.called /\ ~scan.threw) =>
        \A s \in 0..(Len(ScannedText) - 1) :
            OpenAtEnd(ScannedText, s) =>
                \A i \in (s + 1)..(Len(ScannedText) - 1) :
                    ScannedText[i + 1] = OneLineMethod =>
                        \E c \in ImplLenses :
                            /\ scan.codeLenses[c].line = i
                            /\ scan.codeLenses[c].methodName = <<"M">>

RECURSIVE SignatureCount(_)
\* the number of signatures reported for the first k interfaces
SignatureCount(k) ==
    IF k = 0 THEN 0 ELSE SignatureCount(k - 1) + Len(scan.methods[k])

\* the lenses of the last call with the given command and arguments
LensesFor(command, line, methodName, context) ==
    {c \in 1..Len(scan.codeLenses) :
        /\ scan.codeLenses[c].command = command
        /\ scan.codeLenses[c].line = line
        /\ scan.codeLenses[c].methodName = methodName
        /\ scan.codeLenses[c].context = context}

\* C17: provideCodeLenses returns exactly one gotoImplementation lens per
\* signature found, with its method name and the name of its interface,
\* exactly one gotoInterface lens per receiver method found, with its
\* method name and receiver type, and no other lens.
C17_OneLensPerDeclaration ==
    (scan.called /\ ~scan.threw) =>
        /\ \A k \in 1..Len(scan.methods) :
              \A m \in 1..Len(scan.methods[k]) :
                  Cardinality(LensesFor(
                      "goto-implementations.gotoImplementation",
                      scan.methods[k][m].line,
                      scan.methods[k][m].methodName,
                      scan.interfaces[k].name)) = 1
        /\ \A s \in 1..Len(scan.structMethods) :
              Cardinality(LensesFor(
                  "goto-implementations.gotoInterface",
                  scan.structMethods[s].line,
                  scan.structMethods[s].methodName,
                  scan.structMethods[s].receiverType)) = 1
        /\ Len(scan.codeLenses)
              = SignatureCount(Len(scan.methods)) + Len(scan.structMethods)

\* a scan that found two interfaces with signatures and a receiver method
C17_Witness ==
    /\ scan.called /\ ~scan.threw
    /\ Len(scan.methods) = 2
    /\ scan.methods[1] # <<>>
    /\ Len(scan.methods[2]) >= 2
    /\ scan.structMethods # <<>>

\* C18: every lens is anchored on the line of its declaration, from the
\* first place where the method name occurs in the text of that line to the
\* end of that occurrence; the name always occurs there.
C18_AnchorIsFirstOccurrence ==
    (scan.called /\ ~scan.threw) =>
        \A c \in 1..Len(scan.codeLenses) :
            LET lens == scan.codeLenses[c]
                name == lens.methodName
                text == ScannedText[lens.line + 1]
            IN  /\ \/ \E k \in 1..Len(scan.methods) :
                         \E m \in 1..Len(scan.methods[k]) :
                             /\ lens.title = "goto impl"
                             /\ scan.methods[k][m].line = lens.line
                             /\ scan.methods[k][m].methodName = name
                   \/ \E s \in 1..Len(scan.structMethods) :
                         /\ lens.title = "goto iface"
                         /\ scan.structMethods[s].line = lens.line
                         /\ scan.structMethods[s].methodName = name
                /\ lens.startCol >= 0
                /\ OccursAt(text, name, lens.startCol + 1)
                /\ \A q \in 1..lens.startCol : ~OccursAt(text, name, q)
                /\ lens.endCol = lens.startCol + Len(name)
                /\ SubSeq(text, lens.startCol + 1, lens.endCol) = name

\* a lens on a line where the method name occurs twice
C18_Witness ==
    /\ scan.called /\ ~scan.threw
    /\ \E c \in 1..Len(scan.codeLenses) :
          LET lens == scan.codeLenses[c]
              text == ScannedText[lens.line + 1]
          IN  \E q \in 1..Len(text) :
                  /\ q > lens.startCol + 1
                  /\ OccursAt(text, lens.methodName, q)

\* the column at which a receiver method line written from form f has its
\* method name: after `func (`, the receiver and `) `
NameColumn(f) ==
    Len(<<"f", "u", "n", "c", " ", "(">>) + Len(f.recv)
        + (IF f.recv = <<>> THEN 0 ELSE 1) + Len(f.star) + Len(f.type)
        + Len(<<")", " ">>)

\* C19: the position gotoInterface hands to the oracle is the place of the
\* declared method name, the identifier after the receiver's closing
\* parenthesis, whatever the receiver name, receiver type and method name.
C19_OraclePositionAtMethodName ==
    cmd.command = "goto-implementations.gotoInterface" =>
        \A d \in ReceiverDeclarations :
            LineAt(Document(cmd.uri), cmd.start.line) = d.text =>
                cmd.start.character = NameColumn(d.form)

\* the line of a location lies within a block findInterfaces returns for
\* the location's document
InScannedBlock(location) ==
    \E found \in {FindInterfaces(Document(location.uri))} :
        \E k \in 1..Len(found.interfaces) :
            /\ found.interfaces[k].startLine <= location.line
            /\ location.line <= found.interfaces[k].endLine

\* the trimmed text of the line of a location
LocationText(location) ==
    Trim(LineAt(Document(location.uri), location.line))

\* the two conditions of C20 as stated
NotFuncInBlock(location) ==
    /\ ~StartsWith(LocationText(location), <<"f", "u", "n", "c">>)
    /\ InScannedBlock(location)

\* the conditions of the filter: those two, and the method name followed by
\* an opening parenthesis on the line
NamedNotFuncInBlock(location) ==
    /\ NotFuncInBlock(location)
    /\ Includes(LocationText(location), cmd.methodName \o <<"(">>)

\* C20 as stated: gotoInterface keeps exactly the locations whose trimmed
\* line does not start with `func` and lies within an interface block of
\* the location's document.
C20_KeptIffNotFuncInBlock ==
    (/\ cmd.command = "goto-implementations.gotoInterface"
     /\ cmd.oracle.kind = "locations") =>
        cmd.interfaceLocations
            = SelectSeq(cmd.oracle.locations, NotFuncInBlock)

\* C20 as amended: gotoInterface keeps exactly the locations whose trimmed
\* line does not start with `func`, holds the method name followed by `(`,
\* and lies within an interface block of the location's document.
C20_KeptIffNamedNotFuncInBlock ==
    (/\ cmd.command = "goto-implementations.gotoInterface"
     /\ cmd.oracle.kind = "locations") =>
        cmd.interfaceLocations
            = SelectSeq(cmd.oracle.locations, NamedNotFuncInBlock)

\* the oracle returned the first line of an interface and a signature in
\* it; only the signature was kept
C20_Witness ==
    /\ cmd.command = "goto-implementations.gotoInterface"
    /\ Len(cmd.oracle.locations) = 2
    /\ LineAt(Document(cmd.oracle.locations[1].uri),
              cmd.oracle.locations[1].line) \in InterfaceDeclTexts
    /\ cmd.interfaceLocations = <<cmd.oracle.locations[2]>>

(***************************************************************************)
(* Claims about the order and the spans of what the scanners return, under *)
(* Spec, and about the braces of interface blocks, under SpecBraces.       *)
(***************************************************************************)
\* C21: findInterfaces returns blocks in strictly increasing startLine
\* order, findMethodsInInterface returns the signatures of each block in
\* strictly increasing line order, and findStructMethods returns
\* declarations in strictly increasing startLine order.
C21_SourceOrder ==
    scan.called =>
        /\ \A a, b \in 1..Len(scan.interfaces) :
              a < b => scan.interfaces[a].startLine
                          < scan.interfaces[b].startLine
        /\ \A k \in 1..Len(scan.interfaces) :
              \A m, n \in 1..Len(scan.methods[k]) :
                  m < n => scan.methods[k][m].line < scan.methods[k][n].line
        /\ \A a, b \in 1..Len(scan.structMethods) :
              a < b => scan.structMethods[a].startLine
                          < scan.structMethods[b].startLine

\* a scan that returned two blocks, two signatures for one of them, and two
\* receiver methods
C21_Witness ==
    /\ scan.called
    /\ Len(scan.interfaces) >= 2
    /\ \E k \in 1..Len(scan.interfaces) : Len(scan.methods[k]) >= 2
    /\ Len(scan.structMethods) >= 2

\* the lines that start an interface, by the way they were written
InterfaceStartTexts ==
    InterfaceDeclTexts \cup {EmptyInterface, InterfaceThenClose}

\* line e of text t is the first line after s at which the depth of the
\* block opened at line s is 0
FirstZeroDepth(t, s, e) ==
    /\ s < e
    /\ BraceDepth(t, s, e) = 0
    /\ \A k \in (s + 1)..(e - 1) : BraceDepth(t, s, k) # 0

\* the (startLine, endLine) pairs of the blocks the last call returned
ReturnedBlocks ==
    {<<scan.interfaces[k].startLine, scan.interfaces[k].endLine>> :
        k \in 1..Len(scan.interfaces)}

\* every returned block has its end line set, after its start line, and no
\* block is returned twice
BlocksClosed ==
    /\ \A k \in 1..Len(scan.interfaces) :
          /\ scan.interfaces[k].endLine # -1
          /\ scan.interfaces[k].startLine < scan.interfaces[k].endLine
    /\ Cardinality(ReturnedBlocks) = Len(scan.interfaces)

\* C22, as stated: the returned blocks are exactly the pairs (s, e) with s
\* an interface-start line, e the first line after s at which the depth
\* 1 + opening - closing braces over lines s+1..e is 0, and no
\* interface-start line strictly between s and e; every returned block has
\* endLine set and startLine < endLine.
C22_BlocksByDepth ==
    scan.called =>
        /\ BlocksClosed
        /\ ReturnedBlocks =
              {<<s, e>> \in (0..(Len(ScannedText) - 1))
                               \X (0..(Len(ScannedText) - 1)) :
                  /\ ScannedText[s + 1] \in InterfaceStartTexts
                  /\ FirstZeroDepth(ScannedText, s, e)
                  /\ \A k \in (s + 1)..(e - 1) :
                        ScannedText[k + 1] \notin InterfaceStartTexts}

\* C22, amended: the returned blocks are exactly the pairs (s, e) with s an
\* interface-start line, e the first line after s at which the depth
\* 1 + opening - closing braces over lines s+1..e is 0, and no
\* interface-start line among lines s+1..e, line e included; every returned
\* block has endLine set and startLine < endLine, and a block still open
\* when another interface-start line is met is not returned.
C22_BlocksByDepthNoStartToEnd ==
    scan.called =>
        /\ BlocksClosed
        /\ ReturnedBlocks =
              {<<s, e>> \in (0..(Len(ScannedText) - 1))
                               \X (0..(Len(ScannedText) - 1)) :
                  /\ ScannedText[s + 1] \in InterfaceStartTexts
                  /\ FirstZeroDepth(ScannedText, s, e)
                  /\ \A k \in (s + 1)..e :
                        ScannedText[k + 1] \notin InterfaceStartTexts}

\* a scan that returned a block, of a text in which the depth of an earlier
\* open block falls to 0 on an interface-start line
C22_Witness ==
    /\ scan.called
    /\ scan.interfaces # <<>>
    /\ \E s, e \in 0..(Len(ScannedText) - 1) :
          /\ ScannedText[s + 1] \in InterfaceStartTexts
          /\ ScannedText[e + 1] \in InterfaceStartTexts
          /\ FirstZeroDepth(ScannedText, s, e)

RECURSIVE SkipChars(_, _, _)
\* the first position of text at or after p that holds no character of set
SkipChars(text, p, set) ==
    IF p <= Len(text) /\ text[p] \in set
    THEN SkipChars(text, p + 1, set) ELSE p

\* the line, read character by character, begins with an identifier,
\* optional whitespace and `(`, after its leading whitespace
BeginsWithCall(text) ==
    LET from == SkipChars(text, 1, SpaceChars)
        after == SkipChars(text, from, WordChars)
        paren == SkipChars(text, after, SpaceChars)
    IN  /\ after > from
        /\ paren <= Len(text)
        /\ text[paren] = "("

\* the line, read character by character, begins with `//` after its
\* leading whitespace
BeginsWithComment(text) ==
    LET from == SkipChars(text, 1, SpaceChars)
    IN  /\ from + 1 <= Len(text)
        /\ text[from] = "/"
        /\ text[from + 1] = "/"

\* C23: within a returned block, every line that is no comment and begins
\* with an identifier, optional whitespace and `(` gets a method signature
\* at that line, whatever follows it: a started signature is always pushed.
C23_StartedSignaturePushed ==
    scan.called =>
        \A k \in 1..Len(scan.interfaces) :
            \A i \in scan.interfaces[k].startLine
                        ..scan.interfaces[k].endLine :
                (/\ BeginsWithCall(ScannedText[i + 1])
                 /\ ~BeginsWithComment(ScannedText[i + 1])) =>
                    SignaturesAt(k, i) # {}

\* a block with a signature pushed when its parentheses balanced, one pushed
\* when the next signature started, and one pushed at the end of the block
C23_Witness ==
    /\ scan.called
    /\ \E k \in 1..Len(scan.interfaces) :
          \E a, b, c \in 1..Len(scan.methods[k]) :
              /\ scan.methods[k][a].parenCount = 0
              /\ b < c /\ c = Len(scan.methods[k])
              /\ scan.methods[k][b].parenCount # 0
              /\ scan.methods[k][b].line + scan.methods[k][b].bracketCount
                    = scan.methods[k][c].line - 1
              /\ scan.methods[k][c].parenCount # 0
              /\ scan.methods[k][c].line + scan.methods[k][c].bracketCount
                    = scan.interfaces[k].endLine

\* the line at which the span recorded for signature m of block k ends
SpanEndLine(k, m) == scan.methods[k][m].line + scan.methods[k][m].bracketCount

\* the parentheses of the signature begun at line s of the last scanned
\* text balance over lines s..e, and the completion heuristic succeeds at e
BalancedAndComplete(k, s, e) ==
    /\ ParenBalance(ScannedText, s, e) = 0
    /\ IsMethodComplete(Document(scan.uri), e, scan.interfaces[k]) = "true"

\* C24: the span of a signature ends at the first line, at or after its
\* declaration line, on which its parentheses, counted from the declaration
\* line on, balance and the completion heuristic succeeds; a signature whose
\* parentheses balance on its declaration line spans only that line.
C24_SpanEndsWhereParensBalance ==
    scan.called =>
        \A k \in 1..Len(scan.interfaces) :
            \A m \in 1..Len(scan.methods[k]) :
                LET s == scan.methods[k][m].line
                IN  /\ \A e \in s..scan.interfaces[k].endLine :
                          (/\ BalancedAndComplete(k, s, e)
                           /\ \A d \in s..(e - 1) :
                                 ~BalancedAndComplete(k, s, d)) =>
                              SpanEndLine(k, m) = e
                    /\ ParenBalance(ScannedText, s, s) = 0 =>
                          SpanEndLine(k, m) = s

RECURSIVE OpenParens(_, _, _)
\* the parentheses left open after line e by the signature begun at line s
\* of text t: opening minus closing parentheses over the lines s..e that
\* are no comments
OpenParens(t, s, e) ==
    IF e < s THEN 0
    ELSE OpenParens(t, s, e - 1)
            + (IF BeginsWithComment(t[e + 1]) THEN 0
               ELSE CountChar(t[e + 1], "(") - CountChar(t[e + 1], ")"))

\* C25: while the parentheses of a signature are open, no later line of the
\* block that is no comment starts a method signature: it is a continuation
\* of the open one.
C25_NoStartWhileParensOpen ==
    scan.called =>
        \A k \in 1..Len(scan.interfaces) :
            \A m \in 1..Len(scan.methods[k]) :
                \A i \in (scan.methods[k][m].line + 1)
                            ..scan.interfaces[k].endLine :
                    (/\ ~BeginsWithComment(ScannedText[i + 1])
                     /\ \A j \in scan.methods[k][m].line..(i - 1) :
                           OpenParens(ScannedText, scan.methods[k][m].line, j)
                              # 0) =>
                        SignaturesAt(k, i) = {}

\* C26: when the paren counter of an open signature begun at line s reaches
\* 0 at a later line e of the block, and the completion heuristic fails for
\* line e and its lookahead lines, the signature is finalized with its span
\* ending at the lookahead boundary, the third line after e or the end of
\* the block.
C26_FailOpenAtLookaheadBoundary ==
    scan.called =>
        \A k \in 1..Len(scan.interfaces) :
            \A m \in 1..Len(scan.methods[k]) :
                LET s == scan.methods[k][m].line
                IN  \A e \in (s + 1)..scan.interfaces[k].endLine :
                        (/\ OpenParens(ScannedText, s, s) = 1
                         /\ \A j \in s..(e - 1) :
                               OpenParens(ScannedText, s, j) # 0
                         /\ OpenParens(ScannedText, s, e) = 0
                         /\ \A j \in (s + 1)..e : SignaturesAt(k, j) = {}
                         /\ IsMethodComplete(Document(scan.uri), e,
                                             scan.interfaces[k]) = "false") =>
                            SpanEndLine(k, m)
                               = Min(e + 3, scan.interfaces[k].endLine)

\* C27: for every signature reported for a block, the recorded span starts
\* at the signature's line and ends at or after it, at or before the end of
\* the block: signature.line <= spanEndLine <= endLine.
C27_SpanWithinBlock ==
    scan.called =>
        \A k \in 1..Len(scan.interfaces) :
            \A m \in 1..Len(scan.methods[k]) :
                /\ scan.methods[k][m].bracketCount >= 0
                /\ scan.methods[k][m].line <= SpanEndLine(k, m)
                /\ SpanEndLine(k, m) <= scan.interfaces[k].endLine

\* a block with a span of one line closed by the next signature, a span of
\* several lines closed when the parentheses balanced, and a span closed by
\* the end of the block
C27_Witness ==
    /\ scan.called
    /\ \E k \in 1..Len(scan.interfaces) :
          \E a, b, c \in 1..Len(scan.methods[k]) :
              /\ scan.methods[k][a].bracketCount = 0
              /\ a < Len(scan.methods[k])
              /\ scan.methods[k][b].bracketCount > 0
              /\ scan.methods[k][b].parenCount = 0
              /\ c = Len(scan.methods[k])
              /\ scan.methods[k][c].parenCount # 0
              /\ SpanEndLine(k, c) = scan.interfaces[k].endLine

RECURSIVE DepthWithoutComments(_, _, _)
\* the depth after line e of the block of text t opened at line s when the
\* braces of comment lines are not counted
DepthWithoutComments(t, s, e) ==
    IF e <= s THEN 1
    ELSE DepthWithoutComments(t, s, e - 1)
            + (IF BeginsWithComment(t[e + 1]) THEN 0
               ELSE CountChar(t[e + 1], "{") - CountChar(t[e + 1], "}"))

\* C28: a comment line met while an interface block is open leaves the
\* depth of the block unchanged, whatever braces it holds: no returned block
\* ends on a comment line, and every returned block ends where the depth
\* counted without the comment lines is 0.
C28_CommentLeavesDepth ==
    scan.called =>
        \A k \in 1..Len(scan.interfaces) :
            /\ ~BeginsWithComment(ScannedText[scan.interfaces[k].endLine + 1])
            /\ DepthWithoutComments(ScannedText,
                                    scan.interfaces[k].startLine,
                                    scan.interfaces[k].endLine) = 0

\* C29: an interface-start line opens its block at depth 1 whatever braces
\* it holds, and gets no method signature: a returned block ends after its
\* start line, at the first line where 1 plus the braces of the lines after
\* the start line is 0, and a declaration closed on its own line, as
\* `type E interface{}`, stays the open block until such a line or the next
\* interface-start line.
C29_StartLineOpensAtDepthOne ==
    scan.called =>
        /\ \A k \in 1..Len(scan.interfaces) :
              /\ SignaturesAt(k, scan.interfaces[k].startLine) = {}
              /\ FirstZeroDepth(ScannedText, scan.interfaces[k].startLine,
                                scan.interfaces[k].endLine)
        /\ \A c \in ImplLenses :
              ScannedText[scan.codeLenses[c].line + 1]
                 \notin InterfaceStartTexts
        /\ \A s \in 0..(Len(ScannedText) - 1) :
              ScannedText[s + 1] \in {EmptyInterface, InterfaceThenClose} =>
                 \A e \in (s + 1)..(Len(ScannedText) - 1) :
                     (/\ FirstZeroDepth(ScannedText, s, e)
                      /\ \A j \in (s + 1)..e :
                            ScannedText[j + 1] \notin InterfaceStartTexts) =>
                         <<s, e>> \in ReturnedBlocks

\* a scan that returned a block opened by `type E interface{}`, with a
\* signature reported on a later line of it
C29_Witness ==
    /\ scan.called
    /\ \E k \in 1..Len(scan.interfaces) :
          /\ ScannedText[scan.interfaces[k].startLine + 1] = EmptyInterface
          /\ scan.methods[k] # <<>>

RECURSIVE BraceBalance(_, _, _)
\* opening minus closing braces over lines s..e of text t
BraceBalance(t, s, e) ==
    IF e < s THEN 0
    ELSE BraceBalance(t, s, e - 1) + CountChar(t[e + 1], "{")
            - CountChar(t[e + 1], "}")

\* at line e the parentheses of the declaration begun at line s of text t
\* have balanced and every brace it opened has closed
DeclarationClosed(t, s, e) ==
    /\ ParenBalance(t, s, e) = 0
    /\ BraceBalance(t, s, e) = 0

\* C30: the endLine of a receiver method declared at line s is the first
\* line at or after s at which its parentheses have balanced and its body
\* braces have closed; when the body opens on line s and closes on a later
\* line, endLine is that later line.
C30_EndLineWhereBodyCloses ==
    scan.called =>
        \A m \in 1..Len(scan.structMethods) :
            LET s == scan.structMethods[m].startLine
            IN  \A e \in s..(Len(ScannedText) - 1) :
                    (/\ DeclarationClosed(ScannedText, s, e)
                     /\ \A d \in s..(e - 1) :
                           ~DeclarationClosed(ScannedText, s, d)) =>
                        scan.structMethods[m].endLine = e

(***************************************************************************)
(* Claims about the end of a receiver declaration at the end of the        *)
(* document, the two detection paths of findMethodsInInterface, the anchor *)
(* of a signature and the two interface scanners, under Spec; and about    *)
(* the pickers and the navigation of the command handlers, under           *)
(* SpecCommands.                                                           *)
(***************************************************************************)
\* after line e the counters of the forward scan begun below line s of text
\* t, the parentheses seeded at 1 and the braces at 0, stand for a finished
\* declaration
ForwardScanBalanced(t, s, e) ==
    /\ 1 + ParenBalance(t, s + 1, e) = 0
    /\ BraceBalance(t, s + 1, e) <= 0

\* C31: a receiver method declaration whose forward scan reaches the end of
\* the document without its counters balancing is reported with the last
\* line of the document as its endLine.
C31_UnbalancedEndsAtLastLine ==
    scan.called =>
        \A m \in 1..Len(scan.structMethods) :
            LET s == scan.structMethods[m].startLine
            IN  (\A e \in (s + 1)..(Len(ScannedText) - 1) :
                    ~ForwardScanBalanced(ScannedText, s, e)) =>
                   scan.structMethods[m].endLine = Len(ScannedText) - 1

\* the lines of block k of the last scan that are no comment and begin with
\* an identifier, optional whitespace and `(`
StartLinesOf(k) ==
    {i \in scan.interfaces[k].startLine..scan.interfaces[k].endLine :
        /\ BeginsWithCall(ScannedText[i + 1])
        /\ ~BeginsWithComment(ScannedText[i + 1])}

\* C32: the single-line branch of findMethodsInInterface never adds a
\* signature.  Every line that matches the single-line pattern matches the
\* method-start pattern too, and the signatures of a block are what the
\* method-start branch alone gives: one per method-start line of the block,
\* in the order of the lines, none of them the record with parenCount 0 and
\* span 0 that the single-line branch would push.
C32_SingleLineBranchAddsNothing ==
    scan.called =>
        /\ \A i \in 1..Len(ScannedText) :
              Match("singleLineMethod", Trimmed(ScannedText[i])).ok =>
                 Match("methodStart", Trimmed(ScannedText[i])).ok
        /\ \A k \in 1..Len(scan.interfaces) :
              /\ Len(scan.methods[k]) = Cardinality(StartLinesOf(k))
              /\ \A m \in 1..Len(scan.methods[k]) :
                    /\ scan.methods[k][m].line \in StartLinesOf(k)
                    /\ ~(/\ scan.methods[k][m].parenCount = 0
                         /\ scan.methods[k][m].bracketCount = 0)
                    /\ m > 1 => scan.methods[k][m - 1].line
                                   < scan.methods[k][m].line

\* a scan that reported a signature at a line the single-line pattern
\* matches, in a block that also holds a signature on two lines
C32_Witness ==
    /\ scan.called
    /\ \E k \in 1..Len(scan.interfaces) :
          \E a, b \in 1..Len(scan.methods[k]) :
              /\ ScannedText[scan.methods[k][a].line + 1] = OneLineMethod
              /\ Match("singleLineMethod", Trimmed(OneLineMethod)).ok
              /\ scan.methods[k][b].bracketCount > 0

\* C33: every "goto impl" lens starts at the column that follows the leading
\* whitespace of its declaration line and covers the identifier that begins
\* the declaration, the one followed by optional whitespace and `(`, also
\* when the name occurs again further on the line.
C33_AnchorAfterLeadingWhitespace ==
    (scan.called /\ ~scan.threw) =>
        \A c \in ImplLenses :
            LET lens == scan.codeLenses[c]
                text == ScannedText[lens.line + 1]
                from == SkipChars(text, 1, SpaceChars)
                after == SkipChars(text, from, WordChars)
            IN  /\ lens.startCol = from - 1
                /\ lens.endCol = after - 1
                /\ SubSeq(text, from, after - 1) = lens.methodName
                /\ BeginsWithCall(text)

\* a "goto impl" lens on an indented line where the method name occurs a
\* second time, as a type
C33_Witness ==
    /\ scan.called /\ ~scan.threw
    /\ \E c \in ImplLenses :
          LET lens == scan.codeLenses[c]
              text == ScannedText[lens.line + 1]
          IN  /\ lens.startCol > 0
              /\ \E q \in (lens.endCol + 1)..Len(text) :
                    OccursAt(text, lens.methodName, q)

\* the name and the two lines of every block of a sequence of blocks
BlockSpans(blocks) ==
    [k \in 1..Len(blocks) |->
        <<blocks[k].name, blocks[k].startLine, blocks[k].endLine>>]

\* C34: on the text of the document just scanned, findInterfacesInDocument
\* returns the blocks findInterfaces returned: the same names, start lines
\* and end lines in the same order.
C34_SameBlocksInDocument ==
    (scan.called /\ ~scan.threw) =>
        BlockSpans(FindInterfacesInDocument(Document(scan.uri)))
            = BlockSpans(scan.interfaces)

\* a scan of a text where one block was opened on a line that closes it
\* again, one block holds a nested brace, and a block was returned
C34_Witness ==
    /\ scan.called /\ ~scan.threw
    /\ scan.uri = "doc"
    /\ scan.interfaces # <<>>
    /\ FindInterfacesInDocument(Document(scan.uri)) # <<>>
    /\ \E i, j \in 1..Len(ScannedText) :
          /\ ScannedText[i] \in {EmptyInterface, InterfaceThenClose}
          /\ ScannedText[j] \in {StructOpen, CommentedBrace, DoubleClose}

\* the filter kept the location of this step of the loop
WasKept(step) == step.kept

\* the text each kept location was filtered on, in the order of
\* cmd.interfaceLocations
KeptOn == SelectSeq(cmd.filteredOn, WasKept)

\* the names of the interface blocks of text t that contain the line: a
\* block runs from a declaration line to the first line where its depth is
\* 0, with no other declaration line on the way
BlockNamesAt(t, line) ==
    {n \in InterfaceNames :
        \E s \in 0..line : \E e \in line..(Len(t) - 1) :
            /\ t[s + 1] = InterfaceDecl(n)
            /\ FirstZeroDepth(t, s, e)
            /\ \A j \in (s + 1)..e : t[j + 1] \notin InterfaceStartTexts}

\* C35: a picker entry of gotoInterface made from the text its location was
\* filtered on carries the name of an interface block containing the
\* location's line, never `Unknown`; the picker shows the entries as they
\* were made.  An entry made after the document was edited may carry
\* `Unknown`.
C35_NamedUnlessEdited ==
    /\ \A k \in 1..Len(cmd.items) :
          cmd.items[k] # <<>> =>
             (KeptOn[k].text = cmd.labelledOn[k][1] =>
                 \E n \in BlockNamesAt(cmd.labelledOn[k][1],
                                       cmd.interfaceLocations[k].line) :
                     /\ n # Unknown
                     /\ cmd.items[k][1].detail
                           = n \o <<".">> \o cmd.methodName)
    /\ (cmd.pc = "done" /\ cmd.pickers # <<>>) =>
          cmd.pickers[1] = [k \in 1..Len(cmd.items) |-> cmd.items[k][1]]

\* a picker was shown with an entry made from the text it was filtered on,
\* carrying the name of its interface, and an entry made after its document
\* was edited, carrying `Unknown`
C35_Witness ==
    /\ cmd.pc = "done"
    /\ cmd.pickers # <<>>
    /\ \E j, k \in 1..Len(cmd.pickers[1]) :
          /\ KeptOn[j].text = cmd.labelledOn[j][1]
          /\ cmd.pickers[1][j].detail = <<"B", ".">> \o cmd.methodName
          /\ KeptOn[k].text # cmd.labelledOn[k][1]
          /\ cmd.pickers[1][k].detail = Unknown \o <<".">> \o cmd.methodName

\* the locations of a sequence
LocationsOf(locations) == {locations[k] : k \in 1..Len(locations)}

\* C36: an activation of a command handler navigates at most once, and only
\* to a location the oracle returned for it; gotoInterface navigates only
\* to a location its filter kept, one whose line passes the filter's tests.
\* A handler whose oracle failed or returned nothing does not navigate.
C36_AtMostOneNavigation ==
    cmd.command # "none" =>
        /\ Len(cmd.navigated) <= 1
        /\ LocationsOf(cmd.navigated) \subseteq LocationsOf(cmd.oracle.locations)
        /\ cmd.oracle.kind # "locations" => cmd.navigated = <<>>
        /\ cmd.command = "goto-implementations.gotoInterface" =>
              /\ LocationsOf(cmd.navigated)
                    \subseteq LocationsOf(cmd.interfaceLocations)
              /\ \A n \in 1..Len(cmd.navigated) :
                    NamedNotFuncInBlock(cmd.navigated[n])

\* gotoInterface kept two different locations, offered them in a picker,
\* and showed the second one, which the user picked
C36_Witness ==
    /\ cmd.command = "goto-implementations.gotoInterface"
    /\ Len(cmd.interfaceLocations) = 2
    /\ cmd.interfaceLocations[1] # cmd.interfaceLocations[2]
    /\ Len(cmd.pickers) = 1
    /\ cmd.selected = 2
    /\ cmd.navigated = <<cmd.interfaceLocations[2]>>

RECURSIVE NearestFuncLine(_, _, _)
\* the nearest of the lines i down to last of text t that holds `func`; -1
\* when there is none
NearestFuncLine(t, i, last) ==
    IF i < last \/ i < 0 THEN -1
    ELSE IF Includes(t[i + 1], <<"f", "u", "n", "c">>) THEN i
    ELSE NearestFuncLine(t, i - 1, last)

\* the receiver type a line declares, from the parts it was written from;
\* `Unknown` for a line that declares no receiver method
DeclaredReceiverType(text) ==
    IF text \in ReceiverDeclTexts
    THEN (CHOOSE d \in ReceiverDeclarations : d.text = text).form.type
    ELSE Unknown

\* the implementation class of a location: the receiver type declared by
\* the nearest line holding `func`, from the location's line to the fifth
\* line above it
ImplementationClassOf(location) ==
    LET t == Document(location.uri).lines
        i == NearestFuncLine(t, location.line, location.line - 5)
    IN  IF i = -1 THEN Unknown ELSE DeclaredReceiverType(t[i + 1])

\* C37: every entry of the picker of gotoImplementation has the relative
\* path of its location as label and `<ImplementationClass>.<methodName>` as
\* detail, the class being the receiver type of the func declaration on the
\* location's line or within the 5 lines above it, and `Unknown` when there
\* is no such receiver declaration.
C37_ImplementationPickerEntries ==
    (/\ cmd.command = "goto-implementations.gotoImplementation"
     /\ cmd.pickers # <<>>) =>
        \A k \in 1..Len(cmd.pickers[1]) :
            LET entry == cmd.pickers[1][k]
            IN  /\ entry.location = cmd.oracle.locations[k]
                /\ entry.label = AsRelativePath(entry.location.uri)
                /\ entry.detail
                      = ImplementationClassOf(entry.location) \o <<".">>
                           \o cmd.methodName

=============================================================================
